---- MODULE Spec2Model ----
(***************************************************************************)
(* Lazy continued fractions (cf.py): the memoizing partial-quotient        *)
(* protocol, the rational source, the homographic and bihomographic        *)
(* generators (Gosper's algorithm), integer conversion and comparison.     *)
(*                                                                         *)
(* A Python generator is modelled by the record of its local variables     *)
(* plus a mode naming the loop it is suspended in; one loop iteration is   *)
(* one application of GenIter.  Python's None is the empty tuple, an       *)
(* integer v that may also be None is the one-element tuple <<v>>.         *)
(***************************************************************************)
EXTENDS Integers, Sequences, FiniteSets, TLC

None == <<>>
Some(v) == <<v>>
Val(o) == o[1]

\* Python's a // b on integers (floor division, either sign of b).
FloorDiv(a, b) == IF b > 0 THEN a \div b ELSE (-a) \div (-b)

\* Python's a % b on integers (the sign follows b).
PyMod(a, b) == a - b * FloorDiv(a, b)

Sign(n) == IF n > 0 THEN 1 ELSE IF n < 0 THEN -1 ELSE 0

\* long.__cmp__: -1, 0 or 1.
IntCmp(m, n) == IF m < n THEN -1 ELSE IF m > n THEN 1 ELSE 0

(***************************************************************************)
(* Bounds of the model.                                                    *)
(***************************************************************************)
MaxNum == 4        \* numerators of the operands range over -MaxNum..MaxNum
MaxDen == 3        \* denominators of the operands range over 1..MaxDen
MaxCoef == 2       \* coefficients of a general unary transform: -MaxCoef..MaxCoef
MinCeil == 3       \* smallest iteration ceiling max_iters tried
MaxCeil == 7       \* largest iteration ceiling max_iters tried
MaxBig == 40       \* magnitude of the integers handed to cf(n)
MaxIngest == 12    \* quotients read from a periodic operand before the run is cut
MaxSeqLen == 2      \* longest prefix and tail of a fixed-sequence source
MaxQuot == 2        \* quotients of the fixed-sequence sources: 1..MaxQuot
MaxIndex == 6       \* largest index asked of a fixed-sequence source

(***************************************************************************)
(* The host's number types, scaled.  A Python 2 value is an int when it    *)
(* fits a machine word and a long otherwise; float(long) rounds to the     *)
(* float's significand (round-half-even).  CPython on a 64-bit host has    *)
(* sys.maxint = 2^63 - 1 and 53 significand bits; the widths are scaled    *)
(* down to 2^5 - 1 and 3 bits here, keeping the significand narrower than  *)
(* the word, because the model's integers are 32 bits wide.                *)
(***************************************************************************)
SysMaxInt == 31
MantDig == 3

\* max_iters as the module sets it
DefaultMaxIters == 100

IsMachineInt(n) == n >= -SysMaxInt - 1 /\ n <= SysMaxInt

RECURSIVE Pow2(_)
Pow2(k) == IF k = 0 THEN 1 ELSE 2 * Pow2(k - 1)

\* The unit in the last place of the float nearest to n >= 0.
RECURSIVE Ulp(_, _)
Ulp(n, u) == IF n < Pow2(MantDig) * u THEN u ELSE Ulp(n, 2 * u)

\* float(n) for a non-negative integer n, as the integer it denotes.
FloatOfNat(n) ==
  LET u == Ulp(n, 1)
      lo == (n \div u) * u
      rem == n - lo
  IN  IF 2 * rem < u THEN lo
      ELSE IF 2 * rem > u THEN lo + u
      ELSE IF (lo \div u) % 2 = 0 THEN lo ELSE lo + u

\* float(n) for an integer n.
FloatOf(n) == IF n >= 0 THEN FloatOfNat(n) ELSE -FloatOfNat(-n)

(***************************************************************************)
(* Fixed-sequence source: cf(x) and cf(x, y) for sequences.  A stream is   *)
(* [x |-> prefix, y |-> tail]; the tail's elements are quotients or None,  *)
(* and cf(x) sets the tail to (None,).                                     *)
(***************************************************************************)
Stream(x) == [x |-> x, y |-> <<None>>]

Periodic(x, y) == [x |-> x, y |-> [i \in 1..Len(y) |-> Some(y[i])]]

\* fixed_pqs_closure that indexes the tail by n itself
fixed_pqs_closure_NoOffset(s, n) ==
  IF n - Len(s.x) < 0 THEN Some(s.x[n + 1])
  ELSE s.y[(n % Len(s.y)) + 1]

\* fixed_pqs_closure(n)
fixed_pqs_closure(s, n) ==
  IF n - Len(s.x) < 0 THEN Some(s.x[n + 1])
  ELSE s.y[((n - Len(s.x)) % Len(s.y)) + 1]

(***************************************************************************)
(* Generators.  GenIter returns [gen |-> the generator after one loop      *)
(* iteration, out |-> <<>> or <<t>> for a yielded t].                      *)
(***************************************************************************)
\* A generator that has yielded None is never resumed (pq drops it).
Dead == [mode |-> "dead"]

Quiet(g) == [gen |-> g, out |-> <<>>]
Yield(g, t) == [gen |-> g, out |-> <<t>>]

\* cf.__new__ for numbers: the generator ratio(x, y) after the conversion of
\* a long x to a float.
ratio(x, y) ==
  IF IsMachineInt(x) THEN [mode |-> "ratio", x |-> x, y |-> y, flt |-> FALSE]
  ELSE [mode |-> "ratio", x |-> FloatOf(x), y |-> y, flt |-> TRUE]

\* divmod(x, y): exact on integers; on a float x (integer-valued, as every
\* float beyond the machine word is) the model covers the divisor 1, where
\* fmod(x, 1.0) = 0.0 and (x - 0.0) / 1.0 = x are exact.
divmod(x, y) == [div |-> FloorDiv(x, y), mod |-> PyMod(x, y)]

\* one iteration of ratio's loop
RatioIter(g) ==
  IF g.y # 0
    THEN LET dm == divmod(g.x, g.y)
         IN  Yield([g EXCEPT !.x = g.y, !.y = dm.mod], Some(dm.div))
    ELSE Yield(Dead, None)

\* _cf_exp_1n(inverse_exponent) for inverse_exponent >= 1: a value whose
\* pq is a closure over the index.
exp_1n(inverse_exponent) == [inverse_exponent |-> inverse_exponent]

\* the closure with the term 2*(index//3) + 1 taken as index//3 + 1
exp_1n_pq_closure_Slow(inverse_exponent, index) ==
  IF index % 3 = 1 THEN ((index \div 3) + 1) * inverse_exponent - 1 ELSE 1

\* exp_1n_pq_closure(index), for inverse_exponent > 1
exp_1n_pq_closure(inverse_exponent, index) ==
  IF index % 3 = 1 THEN (2 * (index \div 3) + 1) * inverse_exponent - 1 ELSE 1

\* e_pq(index), for inverse_exponent = 1
e_pq(index) ==
  IF index % 3 = 2 THEN 2 * (index \div 3) + 2
  ELSE IF index # 0 THEN 1
  ELSE 2

\* the base of the natural logarithm
E == exp_1n(1)

\* x_pq(n) of an operand: a fixed-sequence stream or an exp_1n closure.
OperandPq(s, n) ==
  IF DOMAIN s = {"inverse_exponent"}
    THEN IF s.inverse_exponent = 1 THEN Some(e_pq(n))
         ELSE Some(exp_1n_pq_closure(s.inverse_exponent, n))
    ELSE fixed_pqs_closure(s, n)

\* _cf_homographic(nx, x_pq, a, b, c, d); src names the operand it reads.
Homographic(nx, src, a, b, c, d) ==
  [mode |-> "hom", nx |-> nx, src |-> src, a |-> a, b |-> b, c |-> c, d |-> d]

\* ac and bd of the unary engine: floor(z(infinity)) and floor(z(0)).
HomCorners(g) ==
  IF g.c # 0
    THEN LET ac == Some(FloorDiv(g.a, g.c))
         IN  IF g.d # 0 THEN [ac |-> ac, bd |-> Some(FloorDiv(g.b, g.d))]
             ELSE IF g.b # 0 THEN [ac |-> ac, bd |-> None]
             ELSE [ac |-> ac, bd |-> ac]
    ELSE IF g.d # 0
      THEN IF g.a # 0 THEN [ac |-> None, bd |-> Some(0)]
           ELSE [ac |-> Some(FloorDiv(g.b, g.d)), bd |-> Some(FloorDiv(g.b, g.d))]
      ELSE [ac |-> None, bd |-> None]

\* HomIngest with the old c kept as the new c: d + c*q is dropped
HomIngest_KeepC(g, q) ==
  [g EXCEPT !.a = g.b + g.a * q, !.b = g.a, !.c = g.c, !.d = g.c,
            !.nx = g.nx + 1]

\* the fold of an input quotient q into the unary coefficients
HomIngest(g, q) ==
  [g EXCEPT !.a = g.b + g.a * q, !.b = g.a, !.c = g.d + g.c * q, !.d = g.c,
            !.nx = g.nx + 1]

\* HomEmit that leaves the coefficients as they are
HomEmit_Keep(g, q) == g

\* the reduction of the unary coefficients after the output of q
HomEmit(g, q) ==
  [g EXCEPT !.a = g.c, !.b = g.d, !.c = g.a - g.c * q, !.d = g.b - g.d * q]

\* HomIter that freezes b/d instead of a/c when the input ends
HomIter_FreezeBD(g, X, Y) ==
  LET k == HomCorners(g)
      t == OperandPq(IF g.src = "x" THEN X ELSE Y, g.nx)
  IN  IF k.ac = k.bd
        THEN IF k.ac = None THEN Yield(Dead, None)
             ELSE Yield(HomEmit(g, Val(k.ac)), k.ac)
        ELSE IF t # None THEN Quiet(HomIngest(g, Val(t)))
             ELSE Quiet([mode |-> "tail", a |-> g.b, c |-> g.d, nx |-> g.nx + 1,
                         src |-> g.src])

\* one iteration of _cf_homographic's outer loop
HomIter(g, X, Y) ==
  LET k == HomCorners(g)
      t == OperandPq(IF g.src = "x" THEN X ELSE Y, g.nx)
  IN  IF k.ac = k.bd
        THEN IF k.ac = None THEN Yield(Dead, None)
             ELSE Yield(HomEmit(g, Val(k.ac)), k.ac)
        ELSE IF t # None THEN Quiet(HomIngest(g, Val(t)))
             ELSE Quiet([mode |-> "tail", a |-> g.a, c |-> g.c, nx |-> g.nx + 1,
                         src |-> g.src])

\* one iteration of the inner loop that expands the frozen ratio a/c
TailIter(g) ==
  IF g.c # 0
    THEN LET dm == divmod(g.a, g.c)
         IN  Yield([g EXCEPT !.a = g.c, !.c = dm.mod], Some(dm.div))
    ELSE Yield(Dead, None)

\* _cf_bihomographic(x_pq, y_pq, a, ..., h) as binop.__new__ creates it: the
\* body has not run yet.
Bihomographic(a, b, c, d, e, f, g, h) ==
  [mode |-> "binew", a |-> a, b |-> b, c |-> c, d |-> d,
   e |-> e, f |-> f, g |-> g, h |-> h]

\* BiStart that takes the magnitude of a negative max_iters as the ceiling
BiStart_Magnitude(s, mi) ==
  [mode |-> "bi", a |-> s.a, b |-> s.b, c |-> s.c, d |-> s.d,
   e |-> s.e, f |-> s.f, g |-> s.g, h |-> s.h,
   nx |-> 0, ny |-> 0, iters_left |-> IF mi < 0 THEN -mi ELSE mi,
   allowed_iters |-> IF mi < 0 THEN -mi ELSE mi]

\* The statements before the loop, run by the first next(): mi is the value
\* of the global max_iters at that moment.
BiStart(s, mi) ==
  [mode |-> "bi", a |-> s.a, b |-> s.b, c |-> s.c, d |-> s.d,
   e |-> s.e, f |-> s.f, g |-> s.g, h |-> s.h,
   nx |-> 0, ny |-> 0, iters_left |-> mi, allowed_iters |-> mi]

\* The corner a/e: lower, upper and any_results after the first test.
CornerAE(s) ==
  IF s.e # 0
    THEN [lower |-> Some(FloorDiv(s.a, s.e)), upper |-> Some(FloorDiv(s.a, s.e)),
          any |-> TRUE, ingest_x |-> None]
    ELSE [lower |-> None, upper |-> None, any |-> s.a # 0, ingest_x |-> None]

\* The corner b/f folded into the bounds k of the corner before; bf stays
\* unset (None here) when the corner is 0/0, and is not read then because
\* ingest_x is set.
CornerBF(s, k) ==
  IF s.f # 0
    THEN IF ~k.any
           THEN [lower |-> Some(FloorDiv(s.b, s.f)), upper |-> Some(FloorDiv(s.b, s.f)),
                 any |-> k.any, ingest_x |-> k.ingest_x, bf |-> Some(FloorDiv(s.b, s.f))]
         ELSE IF k.lower = None \/ FloorDiv(s.b, s.f) < Val(k.lower)
           THEN [k EXCEPT !.lower = Some(FloorDiv(s.b, s.f))]
                  @@ [bf |-> Some(FloorDiv(s.b, s.f))]
         ELSE [k EXCEPT !.upper = Some(FloorDiv(s.b, s.f))]
                @@ [bf |-> Some(FloorDiv(s.b, s.f))]
  ELSE IF s.b # 0
    THEN [k EXCEPT !.upper = None, !.any = TRUE] @@ [bf |-> None]
  ELSE [k EXCEPT !.ingest_x = Some(0)] @@ [bf |-> None]

\* The floor q of a further corner folded into the bounds k, after any_results.
Widen(k, q) ==
  IF ~k.any THEN [k EXCEPT !.lower = Some(q), !.upper = Some(q)]
  ELSE IF k.lower = None \/ q < Val(k.lower) THEN [k EXCEPT !.lower = Some(q)]
  ELSE IF k.upper # None /\ q > Val(k.upper) THEN [k EXCEPT !.upper = Some(q)]
  ELSE k

\* The corner c/g folded into the bounds.
CornerCG(s, k) ==
  IF s.g # 0
    THEN Widen(k, FloorDiv(s.c, s.g)) @@ [cg |-> Some(FloorDiv(s.c, s.g))]
  ELSE IF s.c # 0
    THEN [k EXCEPT !.upper = None, !.any = TRUE] @@ [cg |-> None]
  ELSE [k EXCEPT !.ingest_x = Some(1)] @@ [cg |-> None]

\* The corner d/h folded into the bounds.
CornerDH(s, k) ==
  IF s.h # 0
    THEN Widen(k, FloorDiv(s.d, s.h)) @@ [dh |-> Some(FloorDiv(s.d, s.h))]
  ELSE IF s.d # 0
    THEN [k EXCEPT !.upper = None] @@ [dh |-> None]
  ELSE k @@ [dh |-> Some(0)]

\* The bracket of the next quotient: lower and upper after the four corners.
Bracket(s) == CornerDH(s, CornerCG(s, CornerBF(s, CornerAE(s))))

\* The operand to poll when no corner is 0/0: abs(bf-dh) > abs(cg-dh).
PollX(k) ==
  IF k.bf = None THEN k.dh # None
  ELSE IF k.cg = None THEN k.dh = None
  ELSE LET bf == Val(k.bf)
           cg == Val(k.cg)
       IN  IF k.dh = None
             THEN IF bf > 0
                    THEN IF cg > 0 THEN bf < cg ELSE bf < -cg
                    ELSE IF cg > 0 THEN -bf < cg ELSE bf > cg
           ELSE LET dh == Val(k.dh)
                IN  IF bf > dh
                      THEN IF cg > dh THEN bf > cg ELSE bf - dh > dh - cg
                      ELSE IF cg > dh THEN dh - bf > cg - dh ELSE cg > bf

\* ingest_x of the iteration: forced by a 0/0 corner, else chosen by PollX.
IngestX(k) == IF k.ingest_x # None THEN Val(k.ingest_x) = 1 ELSE PollX(k)

\* BiEmit without the rotation: upper is subtracted and the rows stay in place
BiEmit_NoRotate(s, upper) ==
  [s EXCEPT !.a = s.a - s.e * upper, !.b = s.b - s.f * upper,
            !.c = s.c - s.g * upper, !.d = s.d - s.h * upper,
            !.iters_left = s.allowed_iters]

\* the reduction of the binary coefficients after the output of upper
BiEmit(s, upper) ==
  [s EXCEPT !.a = s.e, !.b = s.f, !.c = s.g, !.d = s.h,
            !.e = s.a - s.e * upper, !.f = s.b - s.f * upper,
            !.g = s.c - s.g * upper, !.h = s.d - s.h * upper,
            !.iters_left = s.allowed_iters]

\* the fold of a quotient bf of x into the binary coefficients
BiIngestX(s, bf) ==
  [s EXCEPT !.a = s.c + s.a * bf, !.b = s.d + s.b * bf, !.c = s.a, !.d = s.b,
            !.e = s.g + s.e * bf, !.f = s.h + s.f * bf, !.g = s.e, !.h = s.f,
            !.nx = s.nx + 1]

\* BiIngestY with x's rotation of the coefficients (the rule of BiIngestX)
BiIngestY_AsX(s, bf) ==
  [s EXCEPT !.a = s.c + s.a * bf, !.b = s.d + s.b * bf, !.c = s.a, !.d = s.b,
            !.e = s.g + s.e * bf, !.f = s.h + s.f * bf, !.g = s.e, !.h = s.f,
            !.ny = s.ny + 1]

\* the fold of a quotient bf of y into the binary coefficients
BiIngestY(s, bf) ==
  [s EXCEPT !.a = s.b + s.a * bf, !.b = s.a, !.c = s.d + s.c * bf, !.d = s.c,
            !.e = s.f + s.e * bf, !.f = s.e, !.g = s.h + s.g * bf, !.h = s.g,
            !.ny = s.ny + 1]

\* BiIngest whose unary engine reads the live operand again from index 0
BiIngest_FromStart(s, k, X, Y) ==
  IF IngestX(k)
    THEN LET bf == OperandPq(X, s.nx)
         IN  IF bf # None THEN Quiet(BiIngestX(s, Val(bf)))
             ELSE Quiet(Homographic(0, "y", s.a, s.b, s.e, s.f))
    ELSE LET bf == OperandPq(Y, s.ny)
         IN  IF bf # None THEN Quiet(BiIngestY(s, Val(bf)))
             ELSE Quiet(Homographic(0, "x", s.a, s.c, s.e, s.g))

\* the last part of an iteration: poll one operand
BiIngest(s, k, X, Y) ==
  IF IngestX(k)
    THEN LET bf == OperandPq(X, s.nx)
         IN  IF bf # None THEN Quiet(BiIngestX(s, Val(bf)))
             ELSE Quiet(Homographic(s.ny, "y", s.a, s.b, s.e, s.f))
    ELSE LET bf == OperandPq(Y, s.ny)
         IN  IF bf # None THEN Quiet(BiIngestY(s, Val(bf)))
             ELSE Quiet(Homographic(s.nx, "x", s.a, s.c, s.e, s.g))

\* the bracket is one wide or has no upper end
Unresolved(k) ==
  k.lower # k.upper
  /\ (k.upper = None \/ (k.lower # None /\ Val(k.lower) = Val(k.upper) - 1))

\* BiDecide whose heuristic cutoff outputs lower instead of upper
BiDecide_YieldLower(s, k, X, Y) ==
  IF k.lower = k.upper
    THEN IF k.upper = None THEN Yield(Dead, None)
         ELSE Yield(BiEmit(s, Val(k.upper)), k.upper)
  ELSE IF Unresolved(k)
    THEN IF s.iters_left = 0
           THEN Yield([s EXCEPT !.mode = "cutoff"], k.lower)
           ELSE BiIngest([s EXCEPT !.iters_left = s.iters_left - 1], k, X, Y)
  ELSE BiIngest(s, k, X, Y)

\* the part of an iteration after the bracket k is known: output, heuristic
\* cutoff or input
BiDecide(s, k, X, Y) ==
  IF k.lower = k.upper
    THEN IF k.upper = None THEN Yield(Dead, None)
         ELSE Yield(BiEmit(s, Val(k.upper)), k.upper)
  ELSE IF Unresolved(k)
    THEN IF s.iters_left = 0
           THEN Yield([s EXCEPT !.mode = "cutoff"], k.upper)
           ELSE BiIngest([s EXCEPT !.iters_left = s.iters_left - 1], k, X, Y)
  ELSE BiIngest(s, k, X, Y)

\* one iteration of _cf_bihomographic's loop
BiIter(s, X, Y) == BiDecide(s, Bracket(s), X, Y)

\* the statement after the heuristic output of upper: yield None
CutoffIter(g) == Yield([g EXCEPT !.mode = "cutoffEnd"], None)

\* gcd(x, y) of _cf_pi_generator
RECURSIVE gcd(_, _)
gcd(x, y) == IF y # 0 THEN gcd(y, PyMod(x, y)) ELSE x

\* _cf_pi_generator before its first next()
PiGenerator == [mode |-> "pinew"]

\* one iteration of the loop of _cf_pi_generator
PiIter(g) ==
  LET ac == FloorDiv(g.a, g.c)
      bd == FloorDiv(g.b, g.d)
      na == g.p * g.b + g.q * g.a
      nc == g.p * g.d + g.q * g.c
  IN  IF ac = bd
        THEN Yield([g EXCEPT !.a = g.c, !.b = g.d,
                             !.c = PyMod(g.a, g.c), !.d = PyMod(g.b, g.d)], Some(ac))
        ELSE LET r == IF (g.q + 2) % 2048 = 1
                         THEN gcd(na, gcd(nc, gcd(g.a, g.c))) ELSE 1
             IN  Quiet([g EXCEPT !.a = FloorDiv(na, r), !.b = FloorDiv(g.a, r),
                                 !.c = FloorDiv(nc, r), !.d = FloorDiv(g.c, r),
                                 !.p = g.p + g.q, !.q = g.q + 2])

\* One loop iteration of the generator g of a value built over the operands
\* X and Y, with the global max_iters equal to mi.
GenIter(g, X, Y, mi) ==
  CASE g.mode = "ratio" -> RatioIter(g)
    [] g.mode = "binew" -> BiIter(BiStart(g, mi), X, Y)
    [] g.mode = "bi" -> BiIter(g, X, Y)
    [] g.mode = "cutoff" -> CutoffIter(g)
    [] g.mode = "hom" -> HomIter(g, X, Y)
    [] g.mode = "tail" -> TailIter(g)
    [] g.mode = "pinew" ->
         Yield([mode |-> "pi", a |-> 51, b |-> 6, c |-> 7, d |-> 1, p |-> 16, q |-> 9],
               Some(3))
    [] g.mode = "pi" -> PiIter(g)

\* the generator runs on from the iteration result r to a yield
RECURSIVE RunToYield(_, _, _, _)
RunToYield(r, X, Y, mi) ==
  IF r.out # <<>> THEN r ELSE RunToYield(GenIter(r.gen, X, Y, mi), X, Y, mi)

\* next(): the generator runs up to its next yield.
GenNext(g, X, Y, mi) == RunToYield(GenIter(g, X, Y, mi), X, Y, mi)

(***************************************************************************)
(* cf_base.pq.  A value is [gen, cache, has_next, adv]: has_next is false  *)
(* once pq has deleted next_pq, adv counts the calls of next_pq.           *)
(***************************************************************************)
NewValue(g) == [gen |-> g, cache |-> <<>>, has_next |-> TRUE, adv |-> 0]

\* Advance that returns the result of next_pq() without caching it
Advance_NoAppend(v, r) ==
  [v |-> [gen |-> r.gen, cache |-> v.cache,
          has_next |-> r.out[1] # None, adv |-> v.adv + 1],
   ret |-> r.out[1], err |-> FALSE]

\* the lines of pq after the cache test: r is the result of next_pq()
Advance(v, r) ==
  [v |-> [gen |-> r.gen, cache |-> Append(v.cache, r.out[1]),
          has_next |-> r.out[1] # None, adv |-> v.adv + 1],
   ret |-> r.out[1], err |-> FALSE]

\* pq without the cache test: every call advances the producer
pq_NoCache(v, n, X, Y, mi) ==
  IF ~v.has_next
    THEN IF n < Len(v.cache) THEN [v |-> v, ret |-> v.cache[n + 1], err |-> FALSE]
         ELSE [v |-> v, ret |-> None, err |-> TRUE]
  ELSE Advance(v, GenNext(v.gen, X, Y, mi))

\* pq(n): [v |-> the value afterwards, ret |-> the result, err |-> raised]
pq(v, n, X, Y, mi) ==
  IF n < Len(v.cache) THEN [v |-> v, ret |-> v.cache[n + 1], err |-> FALSE]
  ELSE IF ~v.has_next THEN [v |-> v, ret |-> None, err |-> TRUE]
  ELSE Advance(v, GenNext(v.gen, X, Y, mi))

(***************************************************************************)
(* The value of a quotient sequence, by the convergent recurrence.         *)
(***************************************************************************)
\* <<p, q, p', q'>>: the last convergent p/q of qs and the one before it.
RECURSIVE Convergent(_)
Convergent(qs) ==
  IF Len(qs) = 0 THEN <<1, 0, 0, 1>>
  ELSE LET k == Convergent(SubSeq(qs, 1, Len(qs) - 1))
           t == qs[Len(qs)]
       IN  <<t * k[1] + k[3], t * k[2] + k[4], k[1], k[2]>>

CFNum(qs) == Convergent(qs)[1]
CFDen(qs) == Convergent(qs)[2]

\* the quotient sequence qs denotes the number n/d (d # 0)
DenotesRatio(qs, n, d) ==
  /\ Len(qs) > 0
  /\ CFDen(qs) # 0
  /\ CFNum(qs) * d = CFDen(qs) * n

\* every quotient after the first is positive and a last one is not 1
IsCanonical(qs) ==
  /\ \A i \in 2..Len(qs) : qs[i] >= 1
  /\ Len(qs) > 1 => qs[Len(qs)] > 1

\* the quotients of a finished cache: the entries before the final None
Quotients(cache) == [i \in 1..(Len(cache) - 1) |-> Val(cache[i])]

\* the quotients a finite stream holds
StreamLen(s) == Len(s.x)

(***************************************************************************)
(* The program state: the global max_iters, the operands X and Y, the      *)
(* construction co that built the value under test, the value v itself     *)
(* and the last call made on it.                                           *)
(***************************************************************************)
VARIABLES max_iters, X, Y, co, v, call

vars == <<max_iters, X, Y, co, v, call>>

NoCall == [op |-> "none"]

\* the quotients ratio(x, y) yields before None
RECURSIVE RatioQuotients(_)
RatioQuotients(g) ==
  LET r == RatioIter(g)
  IN  IF r.out[1] = None THEN <<>>
      ELSE <<Val(r.out[1])>> \o RatioQuotients(r.gen)

\* the operands cf(p, q) of the model: canonical rational values
Rationals ==
  { Stream(RatioQuotients(ratio(p, q))) : p \in -MaxNum..MaxNum, q \in 1..MaxDen }

\* cf((1,), (2,)): the regular continued fraction of sqrt(2)
Sqrt2 == Periodic(<<1>>, <<2>>)

Zero == Stream(<<0>>)

\* numerator and denominator of the number a finite operand denotes
NumOf(s) == CFNum(s.x)
DenOf(s) == CFDen(s.x)
IsPositive(s) == NumOf(s) * DenOf(s) > 0

\* the coefficients a..h of the binary transforms: __add__, __sub__,
\* __mul__, __div__ and tanh
BinCoefs ==
  [add |-> <<0, 1, 1, 0, 0, 0, 0, 1>>, sub |-> <<0, 1, -1, 0, 0, 0, 0, 1>>,
   mul |-> <<1, 0, 0, 0, 0, 0, 0, 1>>, div |-> <<0, 1, 0, 0, 0, 0, 1, 0>>,
   tanh |-> <<0, 1, -1, 0, 0, 1, 1, 0>>]

Arith == {"add", "sub", "mul", "div"}

\* binop.__new__
binop(k) == NewValue(Bihomographic(k[1], k[2], k[3], k[4], k[5], k[6], k[7], k[8]))

\* unop.__new__
unop(k) == NewValue(Homographic(0, "x", k[1], k[2], k[3], k[4]))

\* the values of max_iters tried: "never stop" and the small ceilings
Ceilings == {-1} \cup MinCeil..MaxCeil

\* x op y for two values: the operators are applied to rational operands
\* (a zero divisor makes __div__ return NaN without building a transform),
\* tanh to a positive pair x, 1/x, and the product also to sqrt(2), sqrt(2).
InitBin ==
  /\ max_iters \in Ceilings
  /\ \E op \in DOMAIN BinCoefs :
        /\ co = [kind |-> "binop", op |-> op, k |-> BinCoefs[op]]
        /\ \/ /\ op \in Arith
              /\ X \in Rationals
              /\ Y \in Rationals
              /\ op = "div" => Y # Zero
           \/ /\ op = "tanh"
              /\ X \in Rationals
              /\ Y \in Rationals
              /\ IsPositive(X)
              /\ NumOf(X) # DenOf(X)
              /\ NumOf(X) * NumOf(Y) = DenOf(X) * DenOf(Y)
           \/ /\ op = "mul"
              /\ X = Sqrt2
              /\ Y = Sqrt2
  /\ v = binop(co.k)
  /\ call = NoCall

\* unop(x, a, b, c, d) for a rational x and small coefficients
InitUn ==
  /\ max_iters = DefaultMaxIters
  /\ X \in Rationals
  /\ Y = Zero
  /\ \E a, b, c, d \in -MaxCoef..MaxCoef :
        co = [kind |-> "unop", op |-> "unop", k |-> <<a, b, c, d>>]
  /\ v = unop(co.k)
  /\ call = NoCall

\* the operands read so far by the generator of v
Ingested(g) ==
  IF g.mode \in {"bi", "cutoff", "cutoffEnd"} THEN g.nx + g.ny
  ELSE IF g.mode \in {"hom", "tail"} THEN g.nx
  ELSE 0

\* A consumer pulls the quotients of v in order (v.pq(0), v.pq(1), ...).
\* Iterate is a loop iteration of the generator that yields nothing.
Iterate ==
  /\ v.has_next
  /\ Ingested(v.gen) < MaxIngest
  /\ LET r == GenIter(v.gen, X, Y, max_iters)
     IN  /\ r.out = <<>>
         /\ v' = [v EXCEPT !.gen = r.gen]
         /\ call' = [op |-> "pq", n |-> Len(v.cache), done |-> FALSE]
  /\ UNCHANGED <<max_iters, X, Y, co>>

\* Produce is the loop iteration that yields: pq appends the quotient to the
\* cache, drops the generator after None, and returns.
Produce ==
  /\ v.has_next
  /\ LET r == GenIter(v.gen, X, Y, max_iters)
     IN  /\ r.out # <<>>
         /\ v' = [gen |-> r.gen, cache |-> Append(v.cache, r.out[1]),
                  has_next |-> r.out[1] # None, adv |-> v.adv + 1]
         /\ call' = [op |-> "pq", n |-> Len(v.cache), done |-> TRUE]
  /\ UNCHANGED <<max_iters, X, Y, co>>

NextBin == Iterate \/ Produce

SpecBin == InitBin /\ [][NextBin]_vars

SpecUn == InitUn /\ [][NextBin]_vars

SpecUnFair == SpecUn /\ WF_vars(NextBin)

\* the value under test has produced its whole stream
Finished == ~v.has_next

(***************************************************************************)
(* cf_base.__cmp__.  The result is [kind, val]: "int" for the returned     *)
(* -1, 0, 1, "long" for the heuristic 0L, "bool" for True, "raise" for the *)
(* ValueError.                                                             *)
(***************************************************************************)
NaN == Stream(<<>>)

Result(kind, val) == [kind |-> kind, val |-> val]

\* Alt without the flip at odd indices
Alt_NoFlip(i) == 1

\* 1-2*(i&1)
Alt(i) == 1 - 2 * (i % 2)

\* the loop over xrange(max_iters/2), from index i
RECURSIVE CmpLoop(_, _, _, _)
CmpLoop(self, other, i, n) ==
  IF i >= n THEN Result("long", 0)
  ELSE LET self_pq_i == OperandPq(self, i)
           other_pq_i == OperandPq(other, i)
       IN  IF self_pq_i = None
             THEN IF other_pq_i = None THEN Result("int", 0)
                  ELSE Result("int", Alt(i) * IntCmp(Val(other_pq_i), 0))
           ELSE IF other_pq_i = None
             THEN Result("int", Alt(i) * IntCmp(0, Val(self_pq_i)))
           ELSE LET c == IntCmp(Val(self_pq_i), Val(other_pq_i))
                IN  IF c # 0 THEN Result("int", Alt(i) * c)
                    ELSE CmpLoop(self, other, i + 1, n)

\* the part of __cmp__ after other = cf(other)
CmpValues(self, other, mi) ==
  IF OperandPq(other, 0) = None
    THEN IF OperandPq(self, 0) = None THEN Result("bool", 1)
         ELSE Result("raise", 0)
    ELSE CmpLoop(self, other, 0, FloorDiv(mi, 2))

\* self.__cmp__(other) for a value other
cmp(self, other, mi) == CmpValues(self, other, mi)

\* self.__cmp__(n) for an integer n
cmp_int(self, n, mi) ==
  LET p0 == OperandPq(self, 0)
      p1 == OperandPq(self, 1)
      c == IntCmp(Val(p0), n)
  IN  IF p0 # None
        THEN IF c # 0 THEN Result("int", c)
             ELSE IF p1 = None THEN Result("int", 0)
             ELSE Result("int", IntCmp(Val(p1), 0))
        ELSE CmpValues(self, Stream(RatioQuotients(ratio(n, 1))), mi)

\* the ceilings tried by the comparisons, "never stop" included
CmpCeilings == (-2)..MaxCeil

InitCmp ==
  /\ max_iters \in CmpCeilings
  /\ X \in Rationals \cup {NaN}
  /\ Y \in Rationals \cup {NaN}
  /\ co = [kind |-> "cmp"]
  /\ v = NewValue(Dead)
  /\ call = NoCall

\* cmp(X, Y)
Compare ==
  /\ call' = [op |-> "cmp", int |-> FALSE, n |-> 0, r |-> cmp(X, Y, max_iters)]
  /\ UNCHANGED <<max_iters, X, Y, co, v>>

\* cmp(X, n) for a plain integer n
CompareInt ==
  /\ \E n \in -MaxNum..MaxNum :
        call' = [op |-> "cmp", int |-> TRUE, n |-> n, r |-> cmp_int(X, n, max_iters)]
  /\ UNCHANGED <<max_iters, X, Y, co, v>>

NextCmp == Compare \/ CompareInt

SpecCmp == InitCmp /\ [][NextCmp]_vars

(***************************************************************************)
(* __cmp__ of two values, one step at a time: the tests before the loop,   *)
(* then one loop iteration per step.  call records the index i of the next *)
(* iteration and the indices asked of each operand so far.                 *)
(***************************************************************************)
\* LoopBound taken as the whole ceiling
LoopBound_Whole(mi) == mi

\* the length of xrange(max_iters/2)
LoopBound(mi) == IF FloorDiv(mi, 2) > 0 THEN FloorDiv(mi, 2) ELSE 0

\* the body of the loop at index i: <<>> when the loop goes on, else <<r>>
CmpIter(self, other, i) ==
  IF OperandPq(self, i) = None
    THEN IF OperandPq(other, i) = None THEN <<Result("int", 0)>>
         ELSE <<Result("int", Alt(i) * IntCmp(Val(OperandPq(other, i)), 0))>>
  ELSE IF OperandPq(other, i) = None
    THEN <<Result("int", Alt(i) * IntCmp(0, Val(OperandPq(self, i))))>>
  ELSE IF IntCmp(Val(OperandPq(self, i)), Val(OperandPq(other, i))) # 0
    THEN <<Result("int", Alt(i) * IntCmp(Val(OperandPq(self, i)), Val(OperandPq(other, i))))>>
  ELSE <<>>

\* the infinite streams compared: e, e**(1/2) and sqrt(2)
Endless == {E, exp_1n(2), Sqrt2}

\* the ceilings of the stepwise comparisons: the default and the small ones
StepCeilings == {DefaultMaxIters} \cup CmpCeilings

InitCmpSteps ==
  /\ max_iters \in StepCeilings
  /\ X \in Endless \cup Rationals \cup {NaN}
  /\ Y \in Endless \cup {Stream(<<2>>), Stream(<<1, 2>>), NaN}
  /\ co = [kind |-> "cmp"]
  /\ v = NewValue(Dead)
  /\ call = NoCall

\* self_pq(0) and other_pq(0) before the loop
CmpEnter ==
  /\ call = NoCall
  /\ call' = [op |-> "cmp", i |-> 0, self_seen |-> {0}, other_seen |-> {0},
              done |-> OperandPq(Y, 0) = None,
              r |-> IF OperandPq(Y, 0) # None THEN Result("none", 0)
                    ELSE IF OperandPq(X, 0) = None THEN Result("bool", 1)
                    ELSE Result("raise", 0)]
  /\ UNCHANGED <<max_iters, X, Y, co, v>>

\* one iteration of the loop over xrange(max_iters/2)
CmpStep ==
  /\ call.op = "cmp"
  /\ ~call.done
  /\ call.i < LoopBound(max_iters)
  /\ call' = [op |-> "cmp", i |-> call.i + 1,
              self_seen |-> call.self_seen \cup {call.i},
              other_seen |-> call.other_seen \cup {call.i},
              done |-> CmpIter(X, Y, call.i) # <<>>,
              r |-> IF CmpIter(X, Y, call.i) # <<>> THEN CmpIter(X, Y, call.i)[1]
                    ELSE call.r]
  /\ UNCHANGED <<max_iters, X, Y, co, v>>

\* the loop is exhausted: return 0L
CmpExit ==
  /\ call.op = "cmp"
  /\ ~call.done
  /\ call.i >= LoopBound(max_iters)
  /\ call' = [call EXCEPT !.done = TRUE, !.r = Result("long", 0)]
  /\ UNCHANGED <<max_iters, X, Y, co, v>>

NextCmpSteps == CmpEnter \/ CmpStep \/ CmpExit

SpecCmpSteps == InitCmpSteps /\ [][NextCmpSteps]_vars

\* a call of __cmp__ runs on until it returns
SpecCmpStepsFair == SpecCmpSteps /\ WF_vars(NextCmpSteps)

(***************************************************************************)
(* Values pulled through the memoizing pq, one whole call at a time:       *)
(* cf(p, q), cf(p), unop, binop and pi, with int() as a second consumer.   *)
(***************************************************************************)
\* the coefficients of the unary transforms built by __add__, __sub__,
\* __mul__, __div__, __rsub__, __rdiv__ and __neg__ for an integer n
UnCoefs ==
  UNION { { <<1, n, 0, 1>>, <<-1, n, 0, -1>>, <<n, 0, 0, 1>>, <<1, 0, 0, n>>,
            <<-1, n, 0, 1>>, <<0, n, 1, 0>>, <<-1, 0, 0, 1>> } : n \in {-2, 2, 3} }

\* the last test of __int__: r0 and r1 are the results of pq(0) and pq(1)
IntTowardsZero(r0, r1) ==
  IF r1.ret = None THEN [v |-> r1.v, ret |-> Val(r0.ret), err |-> FALSE]
  ELSE [v |-> r1.v, ret |-> Val(r0.ret) + 1, err |-> FALSE]

\* __int__ after self_floor = self.pq(0), whose result is r0
IntOfFloor(r0, mi) ==
  IF r0.ret = None THEN [v |-> r0.v, ret |-> 0, err |-> TRUE]
  ELSE IF Val(r0.ret) >= 0 THEN [v |-> r0.v, ret |-> Val(r0.ret), err |-> FALSE]
  ELSE IntTowardsZero(r0, pq(r0.v, 1, X, Y, mi))

\* cf_base.__int__: [v |-> the value afterwards, ret, err |-> ValueError]
int(x, mi) == IntOfFloor(pq(x, 0, X, Y, mi), mi)

InitPq ==
  /\ max_iters \in {-1, MaxCeil}
  /\ \/ /\ \E p \in -MaxBig..MaxBig, q \in -MaxDen..MaxDen :
              /\ ~IsMachineInt(p) => q = 1
              /\ co = [kind |-> "ratio", p |-> p, q |-> q]
              /\ v = NewValue(ratio(p, q))
        /\ X = Zero
        /\ Y = Zero
     \/ /\ X \in Rationals
        /\ Y = Zero
        /\ \E k \in UnCoefs :
              /\ co = [kind |-> "unop", op |-> "unop", k |-> k]
              /\ v = unop(k)
     \/ /\ X \in Rationals
        /\ Y \in Rationals
        /\ \E op \in Arith :
              /\ op = "div" => Y # Zero
              /\ co = [kind |-> "binop", op |-> op, k |-> BinCoefs[op]]
              /\ v = binop(BinCoefs[op])
     \/ /\ X = Zero
        /\ Y = Zero
        /\ co = [kind |-> "pi"]
        /\ v = NewValue(PiGenerator)
  /\ call = NoCall

\* v.pq(n) for the next index n.  Of pi only the first two quotients are
\* pulled: the third needs integers wider than the model's.
PqNext ==
  /\ v.has_next
  /\ co.kind = "pi" => Len(v.cache) < 2
  /\ LET r == pq(v, Len(v.cache), X, Y, max_iters)
     IN  /\ v' = r.v
         /\ call' = [op |-> "pq", n |-> Len(v.cache), ret |-> r.ret, err |-> r.err]
  /\ UNCHANGED <<max_iters, X, Y, co>>

\* v.pq(n) again for an index n already produced
PqRepeat ==
  /\ \E n \in 0..(Len(v.cache) - 1) :
        LET r == pq(v, n, X, Y, max_iters)
        IN  /\ v' = r.v
            /\ call' = [op |-> "pq", n |-> n, ret |-> r.ret, err |-> r.err]
  /\ UNCHANGED <<max_iters, X, Y, co>>

\* int(v), for a client that has not pulled past index 1
IntConv ==
  /\ Len(v.cache) <= 2
  /\ co.kind # "pi"
  /\ LET r == int(v, max_iters)
     IN  /\ v' = r.v
         /\ call' = [op |-> "int", n |-> 0, ret |-> Some(r.ret), err |-> r.err]
  /\ UNCHANGED <<max_iters, X, Y, co>>

NextPq == PqNext \/ PqRepeat \/ IntConv

SpecPq == InitPq /\ [][NextPq]_vars

(***************************************************************************)
(* The arithmetic operators of cf_base.  An operand is Cf(s) for a value   *)
(* with the stream s, PyInt(n) for a plain integer or PyNone.  A result is *)
(* one of these, Raise(exc), or Made(e, px, py): a value built (or passed  *)
(* on) by the operator, e telling how, px and py the indices the operator  *)
(* itself asked of self and of other before it returned.                   *)
(***************************************************************************)
Cf(s) == [t |-> "cf", s |-> s]
PyInt(n) == [t |-> "int", n |-> n]
PyNone == [t |-> "None"]
Raise(exc) == [t |-> "raise", exc |-> exc]
Made(e, px, py) == [t |-> "made", e |-> e, px |-> px, py |-> py]

\* the ways a value comes about: an existing value, unop(x, ...), binop(x, y, ...)
Same(s) == [kind |-> "same", s |-> s]
Un(x, k) == [kind |-> "unop", x |-> x, k |-> k]
Bin(x, y, k) == [kind |-> "binop", x |-> x, y |-> y, k |-> k]

\* the quotients a generator yields before None, from the yield r on
RECURSIVE Drain(_, _, _, _)
Drain(r, x, y, mi) ==
  IF r.out[1] = None THEN <<>>
  ELSE <<Val(r.out[1])>> \o Drain(GenNext(r.gen, x, y, mi), x, y, mi)

\* the generator behind a built value
GenOf(e) ==
  IF e.kind = "unop" THEN Homographic(0, "x", e.k[1], e.k[2], e.k[3], e.k[4])
  ELSE Bihomographic(e.k[1], e.k[2], e.k[3], e.k[4], e.k[5], e.k[6], e.k[7], e.k[8])

\* the second operand of the generator behind a built value
OtherOf(e) == IF e.kind = "binop" THEN e.y ELSE Zero

\* v.pq(0) of a built value
FirstPq(e, mi) ==
  IF e.kind = "same" THEN OperandPq(e.s, 0)
  ELSE GenNext(GenOf(e), e.x, OtherOf(e), mi).out[1]

\* the whole stream of a built value over finite operands
Expand(e, mi) ==
  IF e.kind = "same" THEN e.s
  ELSE Stream(Drain(GenNext(GenOf(e), e.x, OtherOf(e), mi), e.x, OtherOf(e), mi))

\* a result used as an operand of the next operator
AsOperand(r, mi) == IF r.t = "made" THEN Cf(Expand(r.e, mi)) ELSE r

\* cf(x) for an operand: a value is passed on, an integer n becomes the
\* rational source, None fails in float(None)
cf_new(o) ==
  IF o.t = "cf" THEN o
  ELSE IF o.t = "int" THEN Cf(Stream(RatioQuotients(ratio(o.n, 1))))
  ELSE Raise("TypeError")

\* binop(self, c, ...) for the result c of cf(other); py are the indices
\* asked of other so far
MakeBin(self, c, k, py) ==
  IF c.t = "raise" THEN c ELSE Made(Bin(self, c.s, k), {}, py)

\* cf_base.__add__
add(self, other) ==
  IF other.t = "int"
    THEN IF other.n # 0 THEN Made(Un(self, <<1, other.n, 0, 1>>), {}, {})
         ELSE Made(Same(self), {}, {})
    ELSE MakeBin(self, cf_new(other), BinCoefs.add, {})

\* cf_base.__sub__
sub(self, other) ==
  IF other.t = "int"
    THEN IF other.n # 0 THEN Made(Un(self, <<-1, other.n, 0, -1>>), {}, {})
         ELSE Made(Same(self), {}, {})
    ELSE MakeBin(self, cf_new(other), BinCoefs.sub, {})

\* __mul__ that tests other before it looks at self.pq(0)
mul_ZeroFirst(self, other) ==
  IF other.t = "int"
    THEN IF other.n = 0 THEN Made(Same(Zero), {}, {})
         ELSE IF OperandPq(self, 0) = None THEN Made(Same(NaN), {0}, {})
         ELSE IF other.n = 1 THEN Made(Same(self), {0}, {})
         ELSE Made(Un(self, <<other.n, 0, 0, 1>>), {0}, {})
    ELSE MakeBin(self, cf_new(other), BinCoefs.mul, {})

\* cf_base.__mul__
mul(self, other) ==
  IF other.t = "int"
    THEN IF OperandPq(self, 0) = None THEN Made(Same(NaN), {0}, {})
         ELSE IF other.n = 1 THEN Made(Same(self), {0}, {})
         ELSE Made(Un(self, <<other.n, 0, 0, 1>>), {0}, {})
    ELSE MakeBin(self, cf_new(other), BinCoefs.mul, {})

\* __div__ for a value other, after other = cf(other), whose result is c
DivByValue(self, c) ==
  IF c.t = "raise" THEN c
  ELSE IF OperandPq(c.s, 0) = None THEN Made(Same(NaN), {}, {0})
  ELSE IF OperandPq(c.s, 0) = Some(0) /\ OperandPq(c.s, 1) = None
    THEN Made(Same(NaN), {}, {0, 1})
  ELSE MakeBin(self, c, BinCoefs.div,
               IF OperandPq(c.s, 0) = Some(0) THEN {0, 1} ELSE {0})

\* __div__ without the test for a zero divisor
div_NoZeroTest(self, other) ==
  IF other.t = "int"
    THEN IF other.n = 1 THEN Made(Same(self), {}, {})
         ELSE Made(Un(self, <<1, 0, 0, other.n>>), {}, {})
    ELSE MakeBin(self, cf_new(other), BinCoefs.div, {})

\* cf_base.__div__
div(self, other) ==
  IF other.t = "int"
    THEN IF other.n = 1 THEN Made(Same(self), {}, {})
         ELSE Made(Un(self, <<1, 0, 0, other.n>>), {}, {})
    ELSE DivByValue(self, cf_new(other))

\* cf_base.__neg__
neg(self) == Made(Un(self, <<-1, 0, 0, 1>>), {}, {})

\* cf_base.__abs__
abs(self) ==
  IF OperandPq(self, 0) = None THEN Made(Same(self), {0}, {})
  ELSE IF Val(OperandPq(self, 0)) >= 0 THEN Made(Same(self), {0}, {})
  ELSE neg(self)

\* a result of cf(other) op self seen from self: the roles of px and py swap
Swapped(r) == IF r.t = "made" THEN Made(r.e, r.py, r.px) ELSE r

\* op(c.s, Cf(self)) for the result c of cf(other)
Reflect(op, c, self) ==
  IF c.t = "raise" THEN c
  ELSE IF op = "sub" THEN Swapped(sub(c.s, Cf(self)))
  ELSE Swapped(div(c.s, Cf(self)))

\* cf_base.__radd__
radd(self, other) == add(self, other)

\* cf_base.__rsub__
rsub(self, other) ==
  IF other.t = "int" THEN Made(Un(self, <<-1, other.n, 0, 1>>), {}, {})
  ELSE Reflect("sub", cf_new(other), self)

\* cf_base.__rmul__
rmul(self, other) == mul(self, other)

\* cf_base.__rdiv__
rdiv(self, other) ==
  IF other.t = "int"
    THEN IF OperandPq(self, 0) = None THEN Made(Same(NaN), {0}, {})
         ELSE Made(Un(self, <<0, other.n, 1, 0>>), {0}, {})
    ELSE Reflect("div", cf_new(other), self)

\* The interpreter's l op r for op in "add", "sub", "mul", "div": the method
\* of a value on the left, else the reflected method of a value on the
\* right; a raised exception passes through, None has no arithmetic.
BinaryOp(op, l, r) ==
  IF l.t = "raise" THEN l
  ELSE IF r.t = "raise" THEN r
  ELSE IF l.t = "cf"
    THEN CASE op = "add" -> add(l.s, r)
           [] op = "sub" -> sub(l.s, r)
           [] op = "mul" -> mul(l.s, r)
           [] op = "div" -> div(l.s, r)
  ELSE IF r.t = "cf"
    THEN CASE op = "add" -> radd(r.s, l)
           [] op = "sub" -> rsub(r.s, l)
           [] op = "mul" -> rmul(r.s, l)
           [] op = "div" -> rdiv(r.s, l)
  ELSE IF l.t = "None" \/ r.t = "None" THEN Raise("TypeError")
  ELSE CASE op = "add" -> PyInt(l.n + r.n)
         [] op = "sub" -> PyInt(l.n - r.n)
         [] op = "mul" -> PyInt(l.n * r.n)
         [] op = "div" -> IF r.n = 0 THEN Raise("ZeroDivisionError")
                          ELSE PyInt(FloorDiv(l.n, r.n))

\* int(d) in the place of d.pq(0): a negative quotient that is not whole is
\* rounded towards zero
Pq0Of_TowardsZero(d, mi) ==
  IF d.t # "made" THEN d
  ELSE IF FirstPq(d.e, mi) = None THEN PyNone
  ELSE IF Val(FirstPq(d.e, mi)) < 0 /\ Len(Expand(d.e, mi).x) > 1
    THEN PyInt(Val(FirstPq(d.e, mi)) + 1)
  ELSE PyInt(Val(FirstPq(d.e, mi)))

\* d.pq(0) for the result d of a division
Pq0Of(d, mi) ==
  IF d.t # "made" THEN d
  ELSE IF FirstPq(d.e, mi) = None THEN PyNone
  ELSE PyInt(Val(FirstPq(d.e, mi)))

\* cf_base.__floordiv__
floordiv(self, other, mi) == Pq0Of(div(self, other), mi)

\* self - quotient*other
Remainder(self, quotient, other, mi) ==
  BinaryOp("sub", Cf(self), AsOperand(BinaryOp("mul", quotient, other), mi))

\* cf_base.__mod__
mod(self, other, mi) == Remainder(self, floordiv(self, other, mi), other, mi)

\* a pair, or the exception raised while its second part was computed
Pair(a, b) == IF b.t = "raise" THEN b ELSE [t |-> "tuple", a |-> a, b |-> b]

\* cf_base.__divmod__
divmod_cf(self, other, mi) ==
  Pair(floordiv(self, other, mi),
       Remainder(self, floordiv(self, other, mi), other, mi))

\* cf_base.__rfloordiv__
rfloordiv(self, other, mi) == Pq0Of(BinaryOp("div", other, Cf(self)), mi)

\* other - quotient*self
RRemainder(self, quotient, other, mi) ==
  BinaryOp("sub", other, AsOperand(BinaryOp("mul", quotient, Cf(self)), mi))

\* cf_base.__rmod__
rmod(self, other, mi) == RRemainder(self, rfloordiv(self, other, mi), other, mi)

\* cf_base.__rdivmod__
rdivmod(self, other, mi) ==
  Pair(rfloordiv(self, other, mi),
       RRemainder(self, rfloordiv(self, other, mi), other, mi))

\* __pow__ after other = cf(other), whose result is c: the branches that
\* end in NaN; the others build the power
PowByValue(self, c) ==
  IF c.t = "raise" THEN c
  ELSE IF OperandPq(c.s, 0) = None THEN Made(Same(NaN), {0}, {0})
  ELSE [t |-> "power"]

\* cf_base.__pow__ with z = None
pow(self, other) ==
  IF OperandPq(self, 0) = None THEN Made(Same(NaN), {0}, {})
  ELSE IF other.t = "int" THEN [t |-> "power"]
  ELSE PowByValue(self, cf_new(other))

\* cf_base.__rpow__
rpow(self, other) ==
  IF cf_new(other).t = "raise" THEN cf_new(other)
  ELSE Swapped(pow(cf_new(other).s, Cf(self)))

(***************************************************************************)
(* One operator applied to X and to Y or a plain integer n.                *)
(***************************************************************************)
\* the plain integers given as the other operand
Ints == -MaxCoef..MaxCoef

\* the values the operators are applied to: the rationals and NaN
OpValues == Rationals \cup {NaN}

InitOps ==
  /\ max_iters = DefaultMaxIters
  /\ X \in OpValues
  /\ Y \in OpValues
  /\ co = [kind |-> "op"]
  /\ v = NewValue(Dead)
  /\ call = NoCall

\* the operator name has returned r for the other operand o
Applied(name, o, r) ==
  /\ call' = [op |-> name, other |-> o, r |-> r]
  /\ UNCHANGED <<max_iters, X, Y, co, v>>

\* -X
Neg ==
  /\ call = NoCall
  /\ Applied("Neg", PyNone, neg(X))

\* abs(X)
Abs ==
  /\ call = NoCall
  /\ Applied("Abs", PyNone, abs(X))

\* X + Y
AddValue ==
  /\ call = NoCall
  /\ Applied("AddValue", Cf(Y), add(X, Cf(Y)))

\* X + n
AddInt ==
  /\ call = NoCall
  /\ \E n \in Ints : Applied("AddInt", PyInt(n), add(X, PyInt(n)))

\* X - Y
SubValue ==
  /\ call = NoCall
  /\ Applied("SubValue", Cf(Y), sub(X, Cf(Y)))

\* X - n
SubInt ==
  /\ call = NoCall
  /\ \E n \in Ints : Applied("SubInt", PyInt(n), sub(X, PyInt(n)))

\* X * Y
MulValue ==
  /\ call = NoCall
  /\ Applied("MulValue", Cf(Y), mul(X, Cf(Y)))

\* X * n
MulInt ==
  /\ call = NoCall
  /\ \E n \in Ints : Applied("MulInt", PyInt(n), mul(X, PyInt(n)))

\* X / Y
DivValue ==
  /\ call = NoCall
  /\ Applied("DivValue", Cf(Y), div(X, Cf(Y)))

\* X / n
DivInt ==
  /\ call = NoCall
  /\ \E n \in Ints : Applied("DivInt", PyInt(n), div(X, PyInt(n)))

\* X // Y
FloorDivValue ==
  /\ call = NoCall
  /\ Applied("FloorDivValue", Cf(Y), floordiv(X, Cf(Y), max_iters))

\* X // n
FloorDivInt ==
  /\ call = NoCall
  /\ \E n \in Ints : Applied("FloorDivInt", PyInt(n), floordiv(X, PyInt(n), max_iters))

\* X % Y
ModValue ==
  /\ call = NoCall
  /\ Applied("ModValue", Cf(Y), mod(X, Cf(Y), max_iters))

\* X % n
ModInt ==
  /\ call = NoCall
  /\ \E n \in Ints : Applied("ModInt", PyInt(n), mod(X, PyInt(n), max_iters))

\* divmod(X, Y)
DivModValue ==
  /\ call = NoCall
  /\ Applied("DivModValue", Cf(Y), divmod_cf(X, Cf(Y), max_iters))

\* divmod(X, n)
DivModInt ==
  /\ call = NoCall
  /\ \E n \in Ints : Applied("DivModInt", PyInt(n), divmod_cf(X, PyInt(n), max_iters))

\* X ** Y, for the operands that end in NaN
PowValue ==
  /\ call = NoCall
  /\ X = NaN \/ Y = NaN
  /\ Applied("PowValue", Cf(Y), pow(X, Cf(Y)))

\* X ** n, for the operand that ends in NaN
PowInt ==
  /\ call = NoCall
  /\ X = NaN
  /\ \E n \in Ints : Applied("PowInt", PyInt(n), pow(X, PyInt(n)))

\* n + X
RAddInt ==
  /\ call = NoCall
  /\ \E n \in Ints : Applied("RAddInt", PyInt(n), radd(X, PyInt(n)))

\* n - X
RSubInt ==
  /\ call = NoCall
  /\ \E n \in Ints : Applied("RSubInt", PyInt(n), rsub(X, PyInt(n)))

\* n * X
RMulInt ==
  /\ call = NoCall
  /\ \E n \in Ints : Applied("RMulInt", PyInt(n), rmul(X, PyInt(n)))

\* n / X
RDivInt ==
  /\ call = NoCall
  /\ \E n \in Ints : Applied("RDivInt", PyInt(n), rdiv(X, PyInt(n)))

\* n // X
RFloorDivInt ==
  /\ call = NoCall
  /\ \E n \in Ints : Applied("RFloorDivInt", PyInt(n), rfloordiv(X, PyInt(n), max_iters))

\* n % X
RModInt ==
  /\ call = NoCall
  /\ \E n \in Ints : Applied("RModInt", PyInt(n), rmod(X, PyInt(n), max_iters))

\* divmod(n, X)
RDivModInt ==
  /\ call = NoCall
  /\ \E n \in Ints : Applied("RDivModInt", PyInt(n), rdivmod(X, PyInt(n), max_iters))

\* n ** X, for the operand that ends in NaN
RPowInt ==
  /\ call = NoCall
  /\ X = NaN
  /\ \E n \in Ints : Applied("RPowInt", PyInt(n), rpow(X, PyInt(n)))

NextOps ==
  \/ Neg
  \/ Abs
  \/ AddValue
  \/ AddInt
  \/ SubValue
  \/ SubInt
  \/ MulValue
  \/ MulInt
  \/ DivValue
  \/ DivInt
  \/ FloorDivValue
  \/ FloorDivInt
  \/ ModValue
  \/ ModInt
  \/ DivModValue
  \/ DivModInt
  \/ PowValue
  \/ PowInt
  \/ RAddInt
  \/ RSubInt
  \/ RMulInt
  \/ RDivInt
  \/ RFloorDivInt
  \/ RModInt
  \/ RDivModInt
  \/ RPowInt

SpecOps == InitOps /\ [][NextOps]_vars

(***************************************************************************)
(* The fixed-sequence source queried at any index: X.pq is the closure     *)
(* fixed_pqs_closure, which keeps no cache and no producer.                *)
(***************************************************************************)
\* the sequences of length 0..MaxSeqLen over the quotients 1..MaxQuot
Seqs == UNION { [1..k -> 1..MaxQuot] : k \in 0..MaxSeqLen }

\* cf(x) and cf(x, y) for a prefix x and a non-empty tail y
FixedSequences ==
  { Stream(x) : x \in Seqs } \cup { Periodic(x, y) : x \in Seqs, y \in Seqs \ {<<>>} }

InitSeq ==
  /\ max_iters = DefaultMaxIters
  /\ X \in FixedSequences
  /\ Y = Zero
  /\ co = [kind |-> "seq"]
  /\ v = NewValue(Dead)
  /\ call = NoCall

\* X.pq(n): the closure returns its value, no call fails
SeqQuery ==
  /\ \E n \in 0..MaxIndex :
        call' = [op |-> "pq", n |-> n, ret |-> fixed_pqs_closure(X, n), err |-> FALSE]
  /\ UNCHANGED <<max_iters, X, Y, co, v>>

NextSeq == SeqQuery

SpecSeq == InitSeq /\ [][NextSeq]_vars

(***************************************************************************)
(* A binary transform pulled while set_cf_parameter changes max_iters.     *)
(***************************************************************************)
\* the operands of the transforms pulled under a changing ceiling
CeilOperands == {Sqrt2, Stream(<<1, 2>>), Stream(<<2>>), Stream(<<0, 3>>)}

InitCeil ==
  /\ max_iters \in Ceilings
  /\ X \in CeilOperands
  /\ Y \in CeilOperands
  /\ \E op \in {"add", "mul"} :
        co = [kind |-> "binop", op |-> op, k |-> BinCoefs[op]]
  /\ v = binop(co.k)
  /\ call = NoCall

\* set_cf_parameter('max_iters', value)
SetCeiling ==
  /\ \E value \in Ceilings :
        /\ value # max_iters
        /\ max_iters' = value
        /\ call' = [op |-> "set", n |-> value, done |-> TRUE]
  /\ UNCHANGED <<X, Y, co, v>>

NextCeil == Iterate \/ Produce \/ SetCeiling

SpecCeil == InitCeil /\ [][NextCeil]_vars

(***************************************************************************)
(* _cf_ipow(x, n), entered from cf_base.__pow__.  A Python object is       *)
(* [s |-> its stream, one |-> it is the module's constant one], so that    *)
(* the tests `result is one` are tests of identity.                        *)
(***************************************************************************)
One == [s |-> Stream(<<1>>), one |-> TRUE]
Obj(s) == [s |-> s, one |-> FALSE]

\* the object a result of an operator stands for
ObjOf(r, mi) == Obj(AsOperand(r, mi).s)

\* binop(x, y, 0, 0, 0, 1, 1, 0, 0, 0): 1/(x*y)
RecipCoefs == <<0, 0, 0, 1, 1, 0, 0, 0>>

\* the largest exponent of the model
MaxExp == 4

\* the state of _cf_ipow before its loop
IPowStart(x, n) ==
  [n |-> IF n < 0 THEN -n ELSE n, negative_exponent |-> n < 0, result |-> One,
   x |-> x, inversions |-> 0, products |-> 0, ret |-> None]

\* the odd branch that assigns x to result whether or not result is one
IPowOdd_Overwrite(st, mi) ==
  IF st.negative_exponent /\ st.n = 1
    THEN IF st.result.one
           THEN [st EXCEPT !.ret = Some(rdiv(st.x.s, PyInt(1))),
                           !.inversions = st.inversions + 1]
         ELSE [st EXCEPT !.ret = Some(Made(Bin(st.result.s, st.x.s, RecipCoefs), {}, {})),
                         !.inversions = st.inversions + 1]
  ELSE [st EXCEPT !.result = st.x, !.n = st.n - 1]

\* the branch of the loop for an odd n
IPowOdd(st, mi) ==
  IF st.negative_exponent /\ st.n = 1
    THEN IF st.result.one
           THEN [st EXCEPT !.ret = Some(rdiv(st.x.s, PyInt(1))),
                           !.inversions = st.inversions + 1]
         ELSE [st EXCEPT !.ret = Some(Made(Bin(st.result.s, st.x.s, RecipCoefs), {}, {})),
                         !.inversions = st.inversions + 1]
  ELSE IF st.result.one THEN [st EXCEPT !.result = st.x, !.n = st.n - 1]
  ELSE [st EXCEPT !.result = ObjOf(mul(st.result.s, Cf(st.x.s)), mi),
                  !.products = st.products + 1, !.n = st.n - 1]

\* the branch of the loop for an even n
IPowEven(st, mi) ==
  IF st.negative_exponent /\ st.n = 2 /\ st.result.one
    THEN [st EXCEPT !.ret = Some(Made(Bin(st.x.s, st.x.s, RecipCoefs), {}, {})),
                    !.inversions = st.inversions + 1]
  ELSE [st EXCEPT !.x = ObjOf(mul(st.x.s, Cf(st.x.s)), mi), !.n = st.n \div 2]

\* one test of `while n` and the iteration or the return that follows it
IPowIter(st, mi) ==
  IF st.n = 0 THEN [st EXCEPT !.ret = Some(Made(Same(st.result.s), {}, {}))]
  ELSE IF st.n % 2 = 1 THEN IPowOdd(st, mi)
  ELSE IPowEven(st, mi)

\* the operand X as an object: cf(1) may be the constant one itself
Objects(s) == IF s = One.s THEN {One, Obj(s)} ELSE {Obj(s)}

InitPow ==
  /\ max_iters = DefaultMaxIters
  /\ X \in Rationals
  /\ Y \in Rationals
  /\ co = [kind |-> "pow"]
  /\ v = NewValue(Dead)
  /\ call = NoCall

\* X ** n for a plain integer n: __pow__ finds a value in X and enters
\* _cf_ipow
PowEnterInt ==
  /\ call = NoCall
  /\ OperandPq(X, 0) # None
  /\ \E n \in -MaxExp..MaxExp : \E x \in Objects(X) :
        call' = [op |-> "ipow", exponent |-> n, st |-> IPowStart(x, n)]
  /\ UNCHANGED <<max_iters, X, Y, co, v>>

\* X ** Y for a value Y that is an integer: the fast track of __pow__
PowEnterValue ==
  /\ call = NoCall
  /\ OperandPq(X, 0) # None
  /\ OperandPq(Y, 0) # None
  /\ OperandPq(Y, 1) = None
  /\ Val(OperandPq(Y, 0)) \in -MaxExp..MaxExp
  /\ \E x \in Objects(X) :
        call' = [op |-> "ipow", exponent |-> Val(OperandPq(Y, 0)),
                 st |-> IPowStart(x, Val(OperandPq(Y, 0)))]
  /\ UNCHANGED <<max_iters, X, Y, co, v>>

\* an iteration of the loop of _cf_ipow that goes on
PowStep ==
  /\ call.op = "ipow"
  /\ call.st.ret = None
  /\ IPowIter(call.st, max_iters).ret = None
  /\ call' = [call EXCEPT !.st = IPowIter(call.st, max_iters)]
  /\ UNCHANGED <<max_iters, X, Y, co, v>>

\* _cf_ipow returns
PowReturn ==
  /\ call.op = "ipow"
  /\ call.st.ret = None
  /\ IPowIter(call.st, max_iters).ret # None
  /\ call' = [call EXCEPT !.st = IPowIter(call.st, max_iters)]
  /\ UNCHANGED <<max_iters, X, Y, co, v>>

NextPow == PowEnterInt \/ PowEnterValue \/ PowStep \/ PowReturn

SpecPow == InitPow /\ [][NextPow]_vars

(***************************************************************************)
(* sqrt(x): the construction of a lazy square root.                        *)
(***************************************************************************)
\* the loop of _cf_isqrt
RECURSIVE IsqrtLoop(_, _, _)
IsqrtLoop(x, r1, r2) ==
  IF -1 <= r1 - r2 /\ r1 - r2 <= 1 THEN r1
  ELSE IsqrtLoop(x, FloorDiv(r1 + r2, 2), FloorDiv(x, FloorDiv(r1 + r2, 2)))

\* _cf_isqrt(x): the integer approximation, or the ValueError it raises
cf_isqrt(x) == IF x < 0 THEN Raise("ValueError") ELSE PyInt(IsqrtLoop(x, 1, x))

\* `x == 0` in sqrt.__new__: plain for an integer, x.__cmp__(0) for a value
EqualsZero(x, mi) ==
  IF x.t = "int" THEN [raised |-> FALSE, eq |-> x.n = 0]
  ELSE [raised |-> cmp_int(x.s, 0, mi).kind = "raise",
        eq |-> cmp_int(x.s, 0, mi).kind \in {"int", "long"} /\ cmp_int(x.s, 0, mi).val = 0]

\* the object sqrt.__new__ returns: its fields plain, converse and x
SqrtObject(plain, converse, x) ==
  [t |-> "sqrt", plain |-> plain, converse |-> converse, x |-> x]

\* sqrt.__new__ for an integer x # 0, root the result of _cf_isqrt(x)
SqrtOfInt(x, root) ==
  IF root.t = "raise" THEN root
  ELSE SqrtObject(cf_new(root), Cf(Stream(RatioQuotients(ratio(x.n, root.n)))), x)

\* the branch of sqrt.__new__ for a value 0 < x <= 1/2
SqrtOfSmall(x, root) ==
  IF root.t = "raise" THEN root
  ELSE SqrtObject(Cf(Stream(RatioQuotients(ratio(1, root.n)))), mul(x.s, root), x)

\* the branch of sqrt.__new__ for the other values
SqrtOfLarge(x, root) ==
  IF root.t = "raise" THEN root
  ELSE SqrtObject(cf_new(root), div(x.s, root), x)

\* sqrt.__new__ after the test of x == 0
SqrtBuild(x) ==
  IF x.t = "int" THEN SqrtOfInt(x, cf_isqrt(x.n))
  ELSE IF OperandPq(x.s, 0) = Some(0) /\ OperandPq(x.s, 1) # None
          /\ Val(OperandPq(x.s, 1)) > 1
    THEN SqrtOfSmall(x, cf_isqrt(Val(OperandPq(x.s, 1))))
  ELSE SqrtOfLarge(x, cf_isqrt(Val(OperandPq(x.s, 0))))

\* sqrt.__new__ that builds the root of -x for a negative integer x
sqrt_new_OfMagnitude(x, mi) ==
  IF EqualsZero(x, mi).raised THEN Raise("ValueError")
  ELSE IF EqualsZero(x, mi).eq THEN Made(Same(Zero), {}, {})
  ELSE IF x.t = "int" /\ x.n < 0 THEN SqrtBuild(PyInt(-x.n))
  ELSE SqrtBuild(x)

\* sqrt.__new__(x) for an integer or a value x
sqrt_new(x, mi) ==
  IF EqualsZero(x, mi).raised THEN Raise("ValueError")
  ELSE IF EqualsZero(x, mi).eq THEN Made(Same(Zero), {}, {})
  ELSE SqrtBuild(x)

\* the largest integer whose root is taken
MaxRadicand == 20

InitSqrt ==
  /\ max_iters = DefaultMaxIters
  /\ X \in OpValues
  /\ Y = Zero
  /\ co = [kind |-> "sqrt"]
  /\ v = NewValue(Dead)
  /\ call = NoCall

\* sqrt(n) for a plain integer n
SqrtInt ==
  /\ call = NoCall
  /\ \E n \in -MaxRadicand..MaxRadicand :
        call' = [op |-> "sqrt", x |-> PyInt(n), r |-> sqrt_new(PyInt(n), max_iters)]
  /\ UNCHANGED <<max_iters, X, Y, co, v>>

\* sqrt(X)
SqrtValue ==
  /\ call = NoCall
  /\ call' = [op |-> "sqrt", x |-> Cf(X), r |-> sqrt_new(Cf(X), max_iters)]
  /\ UNCHANGED <<max_iters, X, Y, co, v>>

NextSqrt == SqrtInt \/ SqrtValue

SpecSqrt == InitSqrt /\ [][NextSqrt]_vars

(***************************************************************************)
(* _cf_pi_generator over Python's long integers.  A long n >= 0 is the     *)
(* sequence of its limbs in the base Limb, the lowest first, with no zero  *)
(* at the top; the coefficients of the generator are never negative.       *)
(***************************************************************************)
Limb == 10000

\* the long of a machine integer n >= 0
RECURSIVE Long(_)
Long(n) == IF n = 0 THEN <<>> ELSE <<n % Limb>> \o Long(n \div Limb)

\* the i-th limb of x, zero beyond its length
LimbAt(x, i) == IF i <= Len(x) THEN x[i] ELSE 0

\* x + y from the limb i on, with the carry in
RECURSIVE AddFrom(_, _, _, _)
AddFrom(x, y, i, carry) ==
  IF i > Len(x) /\ i > Len(y) THEN Long(carry)
  ELSE <<(LimbAt(x, i) + LimbAt(y, i) + carry) % Limb>>
         \o AddFrom(x, y, i + 1, (LimbAt(x, i) + LimbAt(y, i) + carry) \div Limb)

LongAdd(x, y) == AddFrom(x, y, 1, 0)

\* k*x from the limb i on for a machine integer k >= 0, with the carry in
RECURSIVE ScaleFrom(_, _, _, _)
ScaleFrom(x, k, i, carry) ==
  IF i > Len(x) THEN Long(carry)
  ELSE <<(x[i] * k + carry) % Limb>> \o ScaleFrom(x, k, i + 1, (x[i] * k + carry) \div Limb)

LongScale(x, k) == IF k = 0 THEN <<>> ELSE ScaleFrom(x, k, 1, 0)

\* the limbs of x without the zeros at the top
RECURSIVE Trim(_)
Trim(x) ==
  IF x = <<>> THEN x
  ELSE IF x[Len(x)] = 0 THEN Trim(SubSeq(x, 1, Len(x) - 1))
  ELSE x

\* x < y, decided from the limb i down for longs of one length
RECURSIVE LessFrom(_, _, _)
LessFrom(x, y, i) ==
  IF i = 0 THEN FALSE
  ELSE IF x[i] # y[i] THEN x[i] < y[i]
  ELSE LessFrom(x, y, i - 1)

LongLess(x, y) ==
  IF Len(x) # Len(y) THEN Len(x) < Len(y) ELSE LessFrom(x, y, Len(x))

\* x - y for x >= y from the limb i on, with the borrow in
RECURSIVE SubFrom(_, _, _, _)
SubFrom(x, y, i, borrow) ==
  IF i > Len(x) THEN <<>>
  ELSE IF x[i] - LimbAt(y, i) - borrow < 0
    THEN <<x[i] - LimbAt(y, i) - borrow + Limb>> \o SubFrom(x, y, i + 1, 1)
  ELSE <<x[i] - LimbAt(y, i) - borrow>> \o SubFrom(x, y, i + 1, 0)

LongSub(x, y) == Trim(SubFrom(x, y, 1, 0))

\* the last step of a division by y, from divmod(x, 2*y) = r
Halved(r, y) ==
  IF LongLess(r.mod, y) THEN [div |-> 2 * r.div, mod |-> r.mod]
  ELSE [div |-> 2 * r.div + 1, mod |-> LongSub(r.mod, y)]

\* divmod(x, y) for y > 0, by halving; the quotient is a machine integer
RECURSIVE LongDivMod(_, _)
LongDivMod(x, y) ==
  IF LongLess(x, y) THEN [div |-> 0, mod |-> x]
  ELSE Halved(LongDivMod(x, LongScale(y, 2)), y)

\* the state of _cf_pi_generator after `yield 3`
PiLoop ==
  [mode |-> "pi", a |-> Long(51), b |-> Long(6), c |-> Long(7), d |-> Long(1),
   p |-> 16, q |-> 9]

\* the iteration of _cf_pi_generator that outputs the quotient ac.div
PiEmit(g, ac, bd) ==
  Yield([g EXCEPT !.a = g.c, !.b = g.d, !.c = ac.mod, !.d = bd.mod], Some(ac.div))

\* PiIngest with p and q exchanged in the new a and c
PiIngest_Exchanged(g) ==
  Quiet([g EXCEPT !.a = LongAdd(LongScale(g.b, g.q), LongScale(g.a, g.p)), !.b = g.a,
                  !.c = LongAdd(LongScale(g.d, g.q), LongScale(g.c, g.p)), !.d = g.c,
                  !.p = g.p + g.q, !.q = g.q + 2])

\* the iteration that takes in the next term of the series for 4/pi, up to
\* the test of q & 2047
PiIngest(g) ==
  Quiet([g EXCEPT !.a = LongAdd(LongScale(g.b, g.p), LongScale(g.a, g.q)), !.b = g.a,
                  !.c = LongAdd(LongScale(g.d, g.p), LongScale(g.c, g.q)), !.d = g.c,
                  !.p = g.p + g.q, !.q = g.q + 2])

\* the limb of a quotient put above the result r for the limbs below it
LimbAbove(r, limb) == [div |-> Append(r.div, limb), mod |-> r.mod]

\* divmod of the limbs i..1 of x by y > 0, limb by limb from the top, with
\* the remainder rem < y of the limbs above
RECURSIVE DivModFrom(_, _, _, _)
DivModFrom(x, y, i, rem) ==
  IF i = 0 THEN [div |-> <<>>, mod |-> rem]
  ELSE LimbAbove(DivModFrom(x, y, i - 1, LongDivMod(Trim(<<x[i]>> \o rem), y).mod),
                 LongDivMod(Trim(<<x[i]>> \o rem), y).div)

\* the quotient without the zeros at its top
Trimmed(r) == [div |-> Trim(r.div), mod |-> r.mod]

\* divmod(x, y) for y > 0 with a long quotient
LongDivModLong(x, y) == Trimmed(DivModFrom(x, y, Len(x), <<>>))

\* gcd(x, y) of _cf_pi_generator over longs
RECURSIVE LongGcd(_, _)
LongGcd(x, y) == IF y # <<>> THEN LongGcd(y, LongDivModLong(x, y).mod) ELSE x

\* the division that leaves b and d as they were
PiDivided_Half(g, r) ==
  [g EXCEPT !.a = LongDivModLong(g.a, r).div, !.c = LongDivModLong(g.c, r).div]

\* a //= gcd_abcd; b //= gcd_abcd; c //= gcd_abcd; d //= gcd_abcd
PiDivided(g, r) ==
  [g EXCEPT !.a = LongDivModLong(g.a, r).div, !.b = LongDivModLong(g.b, r).div,
            !.c = LongDivModLong(g.c, r).div, !.d = LongDivModLong(g.d, r).div]

\* the reduction of a, b, c, d by gcd(a, gcd(c, gcd(b, d)))
PiReduced(g) == PiDivided(g, LongGcd(g.a, LongGcd(g.c, LongGcd(g.b, g.d))))

\* the mask of the test q & 2047 == 1
ReduceMask == 2047

\* if q & 2047 == 1: the reduction, after the result r of PiIngest
PiReduce(r) ==
  IF r.gen.q % (ReduceMask + 1) = 1 THEN Quiet(PiReduced(r.gen)) ELSE r

\* the body of the loop once ac, a_mod_c and bd, b_mod_d are known
PiDecide(g, ac, bd) ==
  IF ac.div = bd.div THEN PiEmit(g, ac, bd) ELSE PiReduce(PiIngest(g))

\* one iteration of the loop of _cf_pi_generator
LongPiIter(g) ==
  IF g.mode = "pinew" THEN Yield(PiLoop, Some(3))
  ELSE PiDecide(g, LongDivMod(g.a, g.c), LongDivMod(g.b, g.d))

\* the most quotients of pi pulled and the most terms of the series taken in
MaxPiQuotients == 13
MaxPiTerms == 20

InitPi ==
  /\ max_iters = DefaultMaxIters
  /\ X = Zero
  /\ Y = Zero
  /\ co = [kind |-> "pi"]
  /\ v = NewValue(PiGenerator)
  /\ call = NoCall

\* pi.pq(n) for the next n: a loop iteration of the generator that yields
\* nothing
PiRead ==
  /\ Len(v.cache) < MaxPiQuotients
  /\ LongPiIter(v.gen).out = <<>>
  /\ v.gen.q < 9 + 2 * MaxPiTerms
  /\ v' = [v EXCEPT !.gen = LongPiIter(v.gen).gen]
  /\ call' = [op |-> "pq", n |-> Len(v.cache), done |-> FALSE]
  /\ UNCHANGED <<max_iters, X, Y, co>>

\* pi.pq(n) for the next n returns: the iteration that yields, and the
\* quotient appended to the cache
PiProduce ==
  /\ Len(v.cache) < MaxPiQuotients
  /\ LongPiIter(v.gen).out # <<>>
  /\ v' = [v EXCEPT !.gen = LongPiIter(v.gen).gen,
                    !.cache = Append(v.cache, LongPiIter(v.gen).out[1]),
                    !.adv = v.adv + 1]
  /\ call' = [op |-> "pq", n |-> Len(v.cache), done |-> TRUE,
              ret |-> LongPiIter(v.gen).out[1]]
  /\ UNCHANGED <<max_iters, X, Y, co>>

\* pi.pq(n) for an n answered from the cache
PiCached ==
  /\ \E n \in 0..(Len(v.cache) - 1) :
        call' = [op |-> "pq", n |-> n, done |-> TRUE, ret |-> v.cache[n + 1]]
  /\ UNCHANGED <<max_iters, X, Y, co, v>>

NextPi == PiRead \/ PiProduce \/ PiCached

SpecPi == InitPi /\ [][NextPi]_vars

(***************************************************************************)
(* The steps of the binary engine on arbitrary coefficients: the bracket   *)
(* of the corners and the three updates of a..h.                           *)
(***************************************************************************)
\* the values of the coefficients a..h tried
EngineCoefs == {-1, 0, 1}

InitCoefs ==
  /\ max_iters = DefaultMaxIters
  /\ X = Zero
  /\ Y = Zero
  /\ \E a, b, c, d, e, f, g, h \in EngineCoefs :
        /\ co = [kind |-> "coefs", k |-> <<a, b, c, d, e, f, g, h>>]
        /\ v = NewValue(BiStart(Bihomographic(a, b, c, d, e, f, g, h), max_iters))
  /\ call = NoCall

\* the first part of an iteration: lower and upper from the four corners
CoefsBracket ==
  /\ call = NoCall
  /\ call' = [op |-> "bracket", k |-> Bracket(v.gen)]
  /\ UNCHANGED <<max_iters, X, Y, co, v>>

\* the update of the coefficients after the output of q
CoefsEmit ==
  /\ call = NoCall
  /\ \E q \in -MaxQuot..MaxQuot :
        /\ v' = [v EXCEPT !.gen = BiEmit(v.gen, q)]
        /\ call' = [op |-> "emit", q |-> q, before |-> v.gen]
  /\ UNCHANGED <<max_iters, X, Y, co>>

\* the update of the coefficients after the quotient q of x
CoefsIngestX ==
  /\ call = NoCall
  /\ \E q \in -MaxQuot..MaxQuot :
        /\ v' = [v EXCEPT !.gen = BiIngestX(v.gen, q)]
        /\ call' = [op |-> "ingest_x", q |-> q, before |-> v.gen]
  /\ UNCHANGED <<max_iters, X, Y, co>>

\* the update of the coefficients after the quotient q of y
CoefsIngestY ==
  /\ call = NoCall
  /\ \E q \in -MaxQuot..MaxQuot :
        /\ v' = [v EXCEPT !.gen = BiIngestY(v.gen, q)]
        /\ call' = [op |-> "ingest_y", q |-> q, before |-> v.gen]
  /\ UNCHANGED <<max_iters, X, Y, co>>

NextCoefs == CoefsBracket \/ CoefsEmit \/ CoefsIngestX \/ CoefsIngestY

SpecCoefs == InitCoefs /\ [][NextCoefs]_vars

(***************************************************************************)
(* digits(x, base): the generator of the floor of x and of the digits of   *)
(* its fractional part, pulled by a consumer with next().                  *)
(***************************************************************************)
\* the state of digits(x, base) before its first iteration
Digits(base) ==
  [mode |-> "digits", a |-> 1, b |-> 0, c |-> 0, d |-> 1, output_digits |-> 0,
   nx |-> 0, base |-> base]

\* the generator after its last statement: the next next() raises StopIteration
Stopped == [mode |-> "stopped"]

\* ac and bd of digits: [ret |-> TRUE] is the bare return at c = d = 0
DigitCorners(g) ==
  IF g.c # 0
    THEN IF g.d # 0
           THEN [ret |-> FALSE, ac |-> Some(FloorDiv(g.a, g.c)),
                 bd |-> Some(FloorDiv(g.b, g.d))]
         ELSE IF g.b # 0
           THEN [ret |-> FALSE, ac |-> Some(FloorDiv(g.a, g.c)), bd |-> None]
         ELSE [ret |-> FALSE, ac |-> Some(FloorDiv(g.a, g.c)),
               bd |-> Some(FloorDiv(g.a, g.c))]
    ELSE IF g.d # 0
      THEN IF g.a # 0 THEN [ret |-> FALSE, ac |-> None, bd |-> Some(0)]
           ELSE [ret |-> FALSE, ac |-> Some(FloorDiv(g.b, g.d)),
                 bd |-> Some(FloorDiv(g.b, g.d))]
      ELSE [ret |-> TRUE, ac |-> None, bd |-> None]

\* the digit q is output and the remainder scaled by the base
DigitEmit(g, q) ==
  [g EXCEPT !.a = g.base * (g.a - g.c * q), !.b = g.base * (g.b - g.d * q),
            !.output_digits = 1]

\* DigitIngest that leaves b/d as it is after END, so the corners stay apart
DigitIngest_NoFreeze(g, t) ==
  IF t # None
    THEN [g EXCEPT !.a = g.b + g.a * Val(t), !.b = g.a,
                   !.c = g.d + g.c * Val(t), !.d = g.c, !.nx = g.nx + 1]
  ELSE [g EXCEPT !.nx = g.nx + 1]

\* the quotient t = x_pq(nx) is folded in; after END both corners are a/c
DigitIngest(g, t) ==
  IF t # None
    THEN [g EXCEPT !.a = g.b + g.a * Val(t), !.b = g.a,
                   !.c = g.d + g.c * Val(t), !.d = g.c, !.nx = g.nx + 1]
  ELSE [g EXCEPT !.b = g.a, !.d = g.c, !.nx = g.nx + 1]

\* the body of the loop once the corners k are known
DigitDecide(g, k, x) ==
  IF k.ret THEN Quiet(Stopped)
  ELSE IF k.ac = k.bd THEN Yield(DigitEmit(g, Val(k.ac)), k.ac)
  ELSE Quiet(DigitIngest(g, OperandPq(x, g.nx)))

\* one iteration of the loop of digits, or the statements after the loop
DigitsIter(g, x) ==
  IF g.a # 0 \/ g.b # 0 THEN DigitDecide(g, DigitCorners(g), x)
  ELSE IF g.output_digits = 0 THEN Yield(Stopped, Some(0))
  ELSE Quiet(Stopped)

\* the largest numerator and denominator of the rationals given to digits,
\* the longest non-canonical sequence and the most digits pulled
MaxDigNum == 5
MaxDigDen == 9
MaxDigLen == 3
MaxDigits == 6

\* the bases of the model
Bases == {2, 3, 10}

\* cf(p, q) for the non-negative p/q of the model
DigitRationals ==
  { Stream(RatioQuotients(ratio(p, q))) : p \in 0..MaxDigNum, q \in 1..MaxDigDen }

\* cf(x) for the short sequences over small quotients of either sign, and
\* cf((0, 2, -1, 3))
DigitSequences ==
  { Stream(x) : x \in UNION { [1..k -> -MaxQuot..MaxQuot] : k \in 0..MaxDigLen } }
    \cup {Stream(<<0, 2, -1, 3>>)}

InitDigits ==
  /\ max_iters = DefaultMaxIters
  /\ X \in DigitRationals \cup DigitSequences
  /\ Y = Zero
  /\ \E base \in Bases :
        /\ co = [kind |-> "digits", base |-> base]
        /\ v = NewValue(Digits(base))
  /\ call = NoCall

\* a loop iteration of digits that reads a quotient of x and yields nothing
DigitsRead ==
  /\ v.has_next
  /\ v.gen.mode = "digits"
  /\ LET r == DigitsIter(v.gen, X)
     IN  /\ r.out = <<>>
         /\ r.gen # Stopped
         /\ v' = [v EXCEPT !.gen = r.gen]
         /\ call' = [op |-> "next", done |-> FALSE]
  /\ UNCHANGED <<max_iters, X, Y, co>>

\* next() returns a yielded result; the cache collects the results
DigitsYield ==
  /\ v.has_next
  /\ v.gen.mode = "digits"
  /\ Len(v.cache) < MaxDigits
  /\ LET r == DigitsIter(v.gen, X)
     IN  /\ r.out # <<>>
         /\ v' = [v EXCEPT !.gen = r.gen, !.cache = Append(v.cache, Val(r.out[1])),
                           !.adv = v.adv + 1]
         /\ call' = [op |-> "next", done |-> TRUE, ret |-> r.out[1]]
  /\ UNCHANGED <<max_iters, X, Y, co>>

\* next() raises StopIteration: the generator has returned
DigitsStop ==
  /\ v.has_next
  /\ \/ v.gen = Stopped
     \/ /\ v.gen.mode = "digits"
        /\ DigitsIter(v.gen, X) = Quiet(Stopped)
  /\ v' = [v EXCEPT !.gen = Stopped, !.has_next = FALSE]
  /\ call' = [op |-> "next", done |-> TRUE, ret |-> None]
  /\ UNCHANGED <<max_iters, X, Y, co>>

NextDigits == DigitsRead \/ DigitsYield \/ DigitsStop

SpecDigits == InitDigits /\ [][NextDigits]_vars

(***************************************************************************)
(* Properties.                                                             *)
(***************************************************************************)

(***************************************************************************)
(* The exact value of the transform under test on finite operands.         *)
(***************************************************************************)
ExactNum ==
  LET k == co.k
      xn == NumOf(X)
      xd == DenOf(X)
      yn == NumOf(Y)
      yd == DenOf(Y)
  IN  IF co.kind = "binop"
        THEN k[1] * xn * yn + k[2] * xn * yd + k[3] * yn * xd + k[4] * xd * yd
        ELSE k[1] * xn + k[2] * xd

ExactDen ==
  LET k == co.k
      xn == NumOf(X)
      xd == DenOf(X)
      yn == NumOf(Y)
      yd == DenOf(Y)
  IN  IF co.kind = "binop"
        THEN k[5] * xn * yn + k[6] * xn * yd + k[7] * yn * xd + k[8] * xd * yd
        ELSE k[3] * xn + k[4] * xd

\* the finished cache is the canonical expansion of ExactNum/ExactDen
IsExactExpansion ==
  /\ IsCanonical(Quotients(v.cache))
  /\ DenotesRatio(Quotients(v.cache), ExactNum, ExactDen)

ArithOnRationals == co.kind = "binop" /\ co.op \in Arith /\ X # Sqrt2

\* the floor of ExactNum/ExactDen
ExactFloor == FloorDiv(ExactNum, ExactDen)

\* the generator of v as it runs its next iteration
Running == IF v.gen.mode = "binew" THEN BiStart(v.gen, max_iters) ELSE v.gen

\* the next iteration of the binary engine meets an unresolved bracket with
\* no iterations left
CutoffDue ==
  /\ v.has_next
  /\ Running.mode = "bi"
  /\ Running.iters_left = 0
  /\ Unresolved(Bracket(Running))

\* the sign of x - y for two finite operands with a value
SignDiff(x, y) ==
  Sign(NumOf(x) * DenOf(y) - NumOf(y) * DenOf(x)) * Sign(DenOf(x) * DenOf(y))

\* the first index at which two streams differ (END counts as a quotient)
RECURSIVE FirstDiff(_, _, _)
FirstDiff(x, y, i) ==
  IF OperandPq(x, i) # OperandPq(y, i) THEN i ELSE FirstDiff(x, y, i + 1)

Compared == call.op = "cmp" /\ ~call.int
ComparedInt == call.op = "cmp" /\ call.int

\* C1: when the indices are requested in order, the producer is advanced
\* exactly once per index; a repeated pq(i) returns the cached value, does
\* not advance the producer and changes nothing; the cache only grows by
\* appending.
C1_Memoized ==
  /\ [](v.adv = Len(v.cache))
  /\ [][(call'.op = "pq" /\ call'.n < Len(v.cache)) =>
          /\ v' = v
          /\ call'.ret = v.cache[call'.n + 1]
          /\ ~call'.err]_vars
  /\ [][/\ Len(v'.cache) >= Len(v.cache)
        /\ SubSeq(v'.cache, 1, Len(v.cache)) = v.cache
        /\ v'.adv - v.adv = Len(v'.cache) - Len(v.cache)]_vars

\* a binary transform has produced three entries and index 1 was asked again
C1_Witness ==
  /\ co.kind = "binop"
  /\ Len(v.cache) >= 3
  /\ v.adv = 3
  /\ call.op = "pq"
  /\ call.n = 1
  /\ call.ret = v.cache[2]

\* C2: for all integers p and q # 0, cf(p, q) is a finite stream denoting
\* exactly p/q, with quotients >= 1 from index 1 on and a last quotient > 1
\* when there are several; for q = 0 it is END at index 0.
C2_RatioCanonical ==
  (co.kind = "ratio" /\ Finished) =>
     IF co.q = 0 THEN v.cache = <<None>>
     ELSE /\ DenotesRatio(Quotients(v.cache), co.p, co.q)
          /\ IsCanonical(Quotients(v.cache))

\* C3: for every integer n, int(cf(n)) = n.
C3_IntRoundTrip ==
  (co.kind = "ratio" /\ co.q = 1 /\ call.op = "int") =>
     /\ ~call.err
     /\ call.ret = Some(co.p)

\* C4 as stated: for all canonical rational x and y, the finished stream of
\* x + y, x - y, x * y, x / y is the canonical expansion of the exact result.
C4_ArithmeticExact_AsStated ==
  (ArithOnRationals /\ Finished) => IsExactExpansion

\* C4 amended: the same, provided x and y together have fewer than max_iters
\* quotients or max_iters is negative (the heuristic cutoff cannot fire).
C4_ArithmeticExact ==
  (/\ ArithOnRationals
   /\ Finished
   /\ max_iters < 0 \/ StreamLen(X) + StreamLen(Y) < max_iters) => IsExactExpansion

\* a product of two three-quotient operands has finished under a ceiling
\* that exceeds their six quotients
C4_Witness ==
  /\ ArithOnRationals
  /\ co.op = "mul"
  /\ Finished
  /\ max_iters >= 0
  /\ StreamLen(X) = 3
  /\ StreamLen(Y) = 3
  /\ StreamLen(X) + StreamLen(Y) < max_iters
  /\ Len(v.cache) >= 4

\* C5: for a finite canonical x and integers a, b, c, d with c*x + d # 0 the
\* stream of unop(x, a, b, c, d) ends, and its quotients denote exactly
\* (a*x + b)/(c*x + d).
C5_UnopExact ==
  /\ []((co.kind = "unop" /\ ExactDen # 0 /\ Finished) =>
          DenotesRatio(Quotients(v.cache), ExactNum, ExactDen))
  /\ (co.kind = "unop" /\ ExactDen # 0) => <>Finished

\* a transform that had to read a three-quotient operand to its end has
\* finished with at least three quotients
C5_Witness ==
  /\ co.kind = "unop"
  /\ ExactDen # 0
  /\ co.k[1] * co.k[4] - co.k[2] * co.k[3] # 0
  /\ StreamLen(X) = 3
  /\ Finished
  /\ Len(v.cache) >= 4

\* C6: every transform built in the module over canonical operands (the
\* arithmetic operators and tanh's (x-y)/(x+y)) returns the floor of its exact
\* value as first quotient and quotients >= 1 afterwards.  Stated for the
\* "never stop" ceiling, where no heuristic cutoff can shorten the stream.
C6_TransformsCanonical ==
  (/\ co.kind = "binop"
   /\ X # Sqrt2
   /\ max_iters < 0
   /\ Len(v.cache) > 0) =>
     /\ v.cache[1] = Some(ExactFloor)
     /\ \A i \in 2..Len(v.cache) : v.cache[i] # None => Val(v.cache[i]) >= 1

\* C7: when an iteration of the binary engine finds the bracket unresolved
\* and iters_left = 0 (max_iters unresolved iterations, each ingesting one
\* quotient, since the last output), it outputs upper and then END; so the
\* product of [1;2,2,2,...] with itself is the stream 2, END, which compares
\* equal to 2 (for every ceiling from 4 up to MaxCeil).
C7_HeuristicCutoff ==
  /\ [][CutoffDue =>
          /\ v'.cache = Append(v.cache, Bracket(Running).upper)
          /\ v'.has_next => v'.gen.mode = "cutoff"]_vars
  /\ [][v.gen.mode = "cutoff" /\ v.has_next =>
          /\ v'.cache = Append(v.cache, None)
          /\ ~v'.has_next]_vars
  /\ [](v.gen.mode \in {"cutoff", "cutoffEnd"} =>
          /\ v.gen.iters_left = 0
          /\ v.gen.nx + v.gen.ny >= v.gen.allowed_iters)
  /\ []((X = Sqrt2 /\ Y = Sqrt2 /\ max_iters >= 4 /\ Finished) =>
          /\ v.cache = <<Some(2), None>>
          /\ cmp_int(Stream(Quotients(v.cache)), 2, max_iters) = Result("int", 0))

\* the product of sqrt(2) with itself was cut off at the largest ceiling
C7_Witness ==
  /\ X = Sqrt2
  /\ Y = Sqrt2
  /\ max_iters = MaxCeil
  /\ Finished
  /\ v.gen.mode = "cutoffEnd"
  /\ v.gen.nx + v.gen.ny >= MaxCeil
  /\ v.cache = <<Some(2), None>>

\* C8: with a negative max_iters, comparing two values whose streams first
\* differ at some index returns the exact non-zero ordering decided there and
\* never reports them equal.
C8_NeverStopCmpExact ==
  (/\ Compared
   /\ max_iters < 0
   /\ X # NaN
   /\ Y # NaN
   /\ X # Y) =>
     /\ call.r.kind = "int"
     /\ call.r.val # 0
     /\ call.r.val = SignDiff(X, Y)

\* C9: with a negative max_iters the binary engine never takes the heuristic
\* cutoff, and END is output only by an iteration whose bracket is
\* lower = upper = None or by the unary engine after an operand has ended.
C9_NeverStopNoCutoff ==
  [][max_iters < 0 =>
       /\ v'.gen.mode # "cutoff"
       /\ (v'.cache # v.cache /\ v'.cache[Len(v'.cache)] = None) =>
            \/ v.gen.mode \in {"hom", "tail"}
            \/ /\ Running.mode = "bi"
               /\ Bracket(Running).lower = None
               /\ Bracket(Running).upper = None]_vars

\* with max_iters negative the engine is still running after more
\* unresolved iterations than the largest ceiling would allow
C9_Witness ==
  /\ max_iters < 0
  /\ v.has_next
  /\ v.gen.mode = "bi"
  /\ v.gen.iters_left < max_iters - MaxCeil
  /\ Unresolved(Bracket(v.gen))

\* C10: for canonical rational x and y with fewer than max_iters/2 quotients
\* each, cmp(x, y) has the sign of x - y, also when one stream is a proper
\* prefix of the other and when the second operand is a plain integer.
C10_CmpSign ==
  /\ (/\ Compared
      /\ X # NaN
      /\ Y # NaN
      /\ 2 * StreamLen(X) < max_iters
      /\ 2 * StreamLen(Y) < max_iters) =>
        /\ call.r.kind \in {"int", "long"}
        /\ Sign(call.r.val) = SignDiff(X, Y)
  /\ (/\ ComparedInt
      /\ X # NaN
      /\ 2 * StreamLen(X) < max_iters) =>
        /\ call.r.kind \in {"int", "long"}
        /\ Sign(call.r.val) = SignDiff(X, Stream(<<call.n>>))

\* an integer-valued stream was compared with a two-quotient stream that
\* extends it, and the order was decided at the END of the shorter one
C10_Witness ==
  /\ Compared
  /\ StreamLen(X) = 1
  /\ StreamLen(Y) = 2
  /\ 2 * StreamLen(Y) < max_iters
  /\ FirstDiff(X, Y, 0) = 1
  /\ call.r = Result("int", -1)

\* C11: comparing an infinite stream with itself (e with e at the default
\* ceiling) terminates, examines exactly the indices 0 .. max_iters/2 - 1 of
\* each operand, never a further one, and returns the heuristic zero 0L,
\* never a non-zero ordering.
C11_SelfCmpHeuristic ==
  /\ [](call.op = "cmp" /\ X \in Endless /\ Y = X /\ max_iters >= 2 =>
          /\ call.self_seen \subseteq 0..(LoopBound(max_iters) - 1)
          /\ call.other_seen \subseteq 0..(LoopBound(max_iters) - 1)
          /\ call.done =>
               /\ call.r = Result("long", 0)
               /\ call.r = cmp(X, Y, max_iters)
               /\ call.self_seen = 0..(max_iters \div 2 - 1)
               /\ call.other_seen = 0..(max_iters \div 2 - 1))
  /\ (X \in Endless /\ Y = X /\ max_iters >= 2) ~> (call.op = "cmp" /\ call.done)

\* e was compared with e at the default ceiling and the call has returned
C11_Witness ==
  /\ X = E
  /\ Y = E
  /\ max_iters = DefaultMaxIters
  /\ call.op = "cmp"
  /\ call.done
  /\ call.i = 50
  /\ call.self_seen = 0..49
  /\ call.r = Result("long", 0)

\* the result r of an operator is the no-value sentinel: a value whose
\* quotient at index 0 is END, the bare END that floor-division returns, or
\* a pair of these
IsNoValue(r, mi) ==
  \/ r.t = "None"
  \/ r.t = "made" /\ FirstPq(r.e, mi) = None
  \/ /\ r.t = "tuple"
     /\ r.a.t = "None"
     /\ r.b.t = "made"
     /\ FirstPq(r.b.e, mi) = None

\* an operator has been applied with NaN as self or as the other operand
NaNOperand == call.op # "none" /\ (X = NaN \/ call.other = Cf(NaN))

\* C12: every arithmetic operator (negation, +, -, *, /, floor-division,
\* remainder, divmod, power, abs and the reflected variants) applied with the
\* no-value sentinel as an operand completes without raising and results in
\* the no-value sentinel.
C12_NaNAbsorbing == NaNOperand => IsNoValue(call.r, max_iters)

\* the no-value sentinel was multiplied by a zero: NaN * 0, 0 * NaN,
\* NaN * cf(0) or cf(0) * NaN
NaNTimesZero ==
  \/ call.op \in {"MulInt", "RMulInt"} /\ X = NaN /\ call.other = PyInt(0)
  \/ call.op = "MulValue" /\ X = NaN /\ Y = Zero
  \/ call.op = "MulValue" /\ X = Zero /\ Y = NaN

\* C13: the no-value sentinel multiplied by zero is the no-value sentinel in
\* every form (NaN * 0, 0 * NaN, cf(0) * NaN, NaN * cf(0)): the product is a
\* value whose stream is END at index 0.
C13_ZeroNeverAbsorbs ==
  NaNTimesZero => call.r.t = "made" /\ Expand(call.r.e, max_iters) = NaN

\* cf(0) * NaN was built by the binary engine and came out as NaN
C13_Witness ==
  /\ call.op = "MulValue"
  /\ X = Zero
  /\ Y = NaN
  /\ call.r.t = "made"
  /\ call.r.e.kind = "binop"
  /\ FirstPq(call.r.e, max_iters) = None

\* a value was divided by an exact zero: the integer 0 or the value cf(0)
DividedByZero ==
  \/ call.op = "DivInt" /\ call.other = PyInt(0)
  \/ call.op = "DivValue" /\ Y = Zero

\* C14: dividing any value x, zero or not, by the integer 0 or by cf(0)
\* raises no error and yields the no-value sentinel: a value whose stream is
\* END at index 0.
C14_DivisionByZero ==
  DividedByZero => call.r.t = "made" /\ Expand(call.r.e, max_iters) = NaN

\* a non-zero value was divided by the integer 0 through the unary engine
C14_Witness ==
  /\ call.op = "DivInt"
  /\ call.other = PyInt(0)
  /\ X = Stream(<<1, 2>>)
  /\ call.r.t = "made"
  /\ call.r.e.kind = "unop"
  /\ FirstPq(call.r.e, max_iters) = None

\* C15: once the quotient query has returned END at index k, a query at
\* index k+1 fails with an error; it never returns a quotient or a second
\* END.  Stated for the fixed-sequence source.
C15_NoQueryPastEnd ==
  [][(/\ call.op = "pq"
      /\ ~call.err
      /\ call.ret = None
      /\ call'.n = call.n + 1) => call'.err]_vars

\* one of +, -, *, / was applied to X and an integer or a value
ArithApplied ==
  call.op \in {"AddValue", "AddInt", "SubValue", "SubInt",
               "MulValue", "MulInt", "DivValue", "DivInt"}

\* C16: applying +, -, * or / with an integer or a value as the other
\* operand pulls no partial quotient from either operand: the operator
\* returns without having asked any index of self or of other.
C16_OperatorsPullNothing ==
  (ArithApplied /\ call.r.t = "made") => call.r.px = {} /\ call.r.py = {}

\* C17: the iteration ceiling is never captured by a binary transform: at
\* every moment after its construction, before or after its first quotient
\* was pulled, the ceiling its cutoff decisions work with is the current
\* value of max_iters.
C17_CeilingNotCaptured ==
  (co.kind = "binop" /\ v.has_next /\ v.gen.mode = "bi") =>
     v.gen.allowed_iters = max_iters

\* k reduced below m by repeated subtraction
RECURSIVE Wrap(_, _)
Wrap(k, m) == IF k < m THEN k ELSE Wrap(k - m, m)

\* C18: cf(prefix, tail) returns prefix[n] for n < len(prefix) and
\* tail[(n - len(prefix)) mod len(tail)] for n >= len(prefix); with no tail
\* it returns END at index len(prefix), so cf(()) is the no-value sentinel.
C18_FixedSequence ==
  /\ call.op = "pq" =>
       /\ ~call.err
       /\ call.n < Len(X.x) => call.ret = Some(X.x[call.n + 1])
       /\ (call.n >= Len(X.x) /\ X.y # <<None>>) =>
             call.ret = X.y[Wrap(call.n - Len(X.x), Len(X.y)) + 1]
       /\ (call.n = Len(X.x) /\ X.y = <<None>>) => call.ret = None
  /\ (call.op = "pq" /\ X = Stream(<<>>) /\ call.n = 0) =>
       X = NaN /\ call.ret = None

\* index 4 of cf((1,), (1, 2)) was asked: the tail has wrapped once
C18_Witness ==
  /\ X = Periodic(<<1>>, <<1, 2>>)
  /\ call.op = "pq"
  /\ call.n = 4
  /\ call.ret = Some(2)

\* base to the power k
RECURSIVE PowOf(_, _)
PowOf(base, k) == IF k = 0 THEN 1 ELSE base * PowOf(base, k - 1)

\* n/d with d > 0: the floor for i = 0, the i-th digit of the fractional part
\* in the base for i >= 1
ExactDigit(n, d, base, i) ==
  IF i = 0 THEN FloorDiv(n, d)
  ELSE FloorDiv(PyMod(n, d) * PowOf(base, i), d) % base

\* some digit of the fractional part of n/d after the first i is not zero
DigitsLeft(n, d, base, i) == (PyMod(n, d) * PowOf(base, i)) % d # 0

\* the results out of digits are the floor and the digits of n/d
DigitsExact(n, d, base, out) ==
  /\ \A i \in 1..Len(out) : out[i] = ExactDigit(n, d, base, i - 1)
  /\ \A i \in 2..Len(out) : out[i] \in 0..(base - 1)

\* no zero is output once every remaining digit is zero, and the generator
\* ends only then, after the floor at least
DigitsStopExactly(n, d, base, out, ended) ==
  /\ \A i \in 2..Len(out) : DigitsLeft(n, d, base, i - 2)
  /\ ended => /\ Len(out) >= 1
              /\ ~DigitsLeft(n, d, base, Len(out) - 1)

\* x is a canonical expansion of a non-negative rational
CanonicalNonNegative(x) ==
  /\ x.y = <<None>>
  /\ x.x # <<>>
  /\ IsCanonical(x.x)
  /\ x.x[1] >= 0

\* C19: for every canonical non-negative rational x and base b >= 2,
\* digits(x, b) first yields floor(x), then the successive base-b digits of
\* the fractional part, each in 0..b-1, and stops exactly when all remaining
\* digits are zero; for x = 0 it yields the single value 0 and for the
\* no-value sentinel it yields nothing.
C19_DigitsOfRational ==
  /\ CanonicalNonNegative(X) =>
        /\ DigitsExact(NumOf(X), DenOf(X), co.base, v.cache)
        /\ DigitsStopExactly(NumOf(X), DenOf(X), co.base, v.cache, ~v.has_next)
  /\ (X = Zero /\ ~v.has_next) => v.cache = <<0>>
  /\ X = NaN => v.cache = <<>>

\* every suffix of the sequence qs denotes a number
WellDefined(qs) ==
  \A j \in 1..Len(qs) : CFDen(SubSeq(qs, j, Len(qs))) # 0

\* x is a finite sequence with a zero or negative quotient after the first
\* that denotes a non-negative number
NonCanonicalNonNegative(x) ==
  /\ x.y = <<None>>
  /\ \E i \in 2..Len(x.x) : x.x[i] <= 0
  /\ WellDefined(x.x)
  /\ NumOf(x) * DenOf(x) >= 0

\* C20: for every finite quotient sequence with zero or negative quotients at
\* non-initial positions that denotes a well-defined non-negative value v,
\* digits yields floor(v) first and then the base-b digits of the fractional
\* part of v, each in 0..b-1.
C20_DigitsOfNonCanonical ==
  NonCanonicalNonNegative(X) =>
    DigitsExact(NumOf(X) * Sign(DenOf(X)), DenOf(X) * Sign(DenOf(X)), co.base,
                v.cache)

\* floor(x/y) for the rationals x and y, y # 0
FloorOfRatio(x, y) == FloorDiv(NumOf(x) * DenOf(y), DenOf(x) * NumOf(y))

\* the stream s denotes x - q*y
DenotesRemainder(s, x, q, y) ==
  DenotesRatio(s.x, NumOf(x) * DenOf(y) - q * NumOf(y) * DenOf(x),
               DenOf(x) * DenOf(y))

\* the number the stream s denotes lies in [0, y) for y > 0, in (y, 0] for y < 0
SignFollows(s, y) ==
  IF NumOf(y) * DenOf(y) > 0
    THEN /\ NumOf(s) * DenOf(s) >= 0
         /\ NumOf(s) * DenOf(y) * Sign(DenOf(s)) < NumOf(y) * DenOf(s) * Sign(DenOf(s))
    ELSE /\ NumOf(s) * DenOf(s) <= 0
         /\ NumOf(s) * DenOf(y) * Sign(DenOf(s)) > NumOf(y) * DenOf(s) * Sign(DenOf(s))

\* the remainder r of x by y is a built value with the claimed properties
IsRemainder(r, x, y, mi) ==
  /\ r.t = "made"
  /\ DenotesRemainder(Expand(r.e, mi), x, FloorOfRatio(x, y), y)
  /\ SignFollows(Expand(r.e, mi), y)

\* X and Y are rationals and Y is not zero
RationalDivision == X # NaN /\ Y # NaN /\ NumOf(Y) # 0

AbsOf(n) == IF n < 0 THEN -n ELSE n

\* the stream s denotes x to the power n (n of either sign, x # 0 for n < 0)
DenotesPower(s, x, n) ==
  IF n >= 0 THEN DenotesRatio(s.x, PowOf(NumOf(x), n), PowOf(DenOf(x), n))
  ELSE DenotesRatio(s.x, PowOf(DenOf(x), -n), PowOf(NumOf(x), -n))

\* the invariant of right-to-left binary exponentiation: result times x to
\* the power n left is X to the power |exponent|
PowerInvariant(st, x, e) ==
  NumOf(st.result.s) * PowOf(NumOf(st.x.s), st.n) * PowOf(DenOf(x), e)
    = DenOf(st.result.s) * PowOf(DenOf(st.x.s), st.n) * PowOf(NumOf(x), e)

\* X ** exponent has returned, and the power exists
PowerReturned ==
  /\ call.op = "ipow"
  /\ call.st.ret # None
  /\ call.exponent < 0 => NumOf(X) # 0

NegativeArgument(x) ==
  IF x.t = "int" THEN x.n < 0 ELSE x.s # NaN /\ NumOf(x.s) < 0

\* the argument of sqrt is zero or positive
NonNegativeArgument(x) ==
  IF x.t = "int" THEN x.n >= 0 ELSE x.s # NaN /\ NumOf(x.s) >= 0

\* C23: constructing sqrt(x) raises the domain error at construction for
\* every canonical x < 0, integer or fractional, and never raises it for a
\* canonical x >= 0.
C23_SqrtDomain ==
  call.op = "sqrt" =>
    /\ NegativeArgument(call.x) => call.r = Raise("ValueError")
    /\ NonNegativeArgument(call.x) => call.r.t # "raise"

\* sqrt(-1/2) has raised at construction
C23_Witness ==
  /\ call.op = "sqrt"
  /\ call.x = Cf(Stream(<<-1, 2>>))
  /\ call.r = Raise("ValueError")

\* C24: the square root of the no-value sentinel is the no-value sentinel:
\* the first quotient query of sqrt(NaN) returns END, not zero and not any
\* other number.
C24_SqrtOfNaN ==
  (call.op = "sqrt" /\ call.x = Cf(NaN)) =>
    /\ call.r.t = "made"
    /\ FirstPq(call.r.e, max_iters) = None

\* the first quotients of the regular continued fraction of pi
PiQuotients == <<3, 7, 15, 1, 292, 1, 1, 1, 2, 1, 3, 1, 14>>

\* C25: the quotient stream produced by the pi generator begins 3, 7, 15, 1,
\* 292, 1, 1, 1, 2, 1, 3, 1, 14.
C25_PiQuotients ==
  co.kind = "pi" =>
    /\ \A i \in 1..Len(v.cache) :
          i <= Len(PiQuotients) => v.cache[i] = Some(PiQuotients[i])
    /\ (call.op = "pq" /\ call.done /\ call.n < Len(PiQuotients)) =>
          call.ret = Some(PiQuotients[call.n + 1])

\* the thirteenth quotient, 14, has been produced
C25_Witness ==
  /\ co.kind = "pi"
  /\ Len(v.cache) = Len(PiQuotients)
  /\ call = [op |-> "pq", n |-> 12, done |-> TRUE, ret |-> Some(14)]

\* the corners a/e, b/f, c/g, d/h of the coefficients s
CornersOf(s) == {<<s.a, s.e>>, <<s.b, s.f>>, <<s.c, s.g>>, <<s.d, s.h>>}

\* the floors of the corners with a denominator that is not zero
FiniteFloors(s) == { FloorDiv(k[1], k[2]) : k \in { t \in CornersOf(s) : t[2] # 0 } }

\* some corner is n/0 with n # 0
HasInfinite(s) == \E k \in CornersOf(s) : k[2] = 0 /\ k[1] # 0

\* the least and the greatest of a non-empty set of integers
Least(S) == CHOOSE m \in S : \A n \in S : m <= n
Greatest(S) == CHOOSE m \in S : \A n \in S : m >= n

\* lower and upper as the corners define them
LowerOf(s) == IF FiniteFloors(s) = {} THEN None ELSE Some(Least(FiniteFloors(s)))
UpperOf(s) ==
  IF HasInfinite(s) \/ FiniteFloors(s) = {} THEN None
  ELSE Some(Greatest(FiniteFloors(s)))

\* C26: at every step of the bihomographic engine, for all integer
\* coefficients, lower equals the floor of the minimum and upper the floor
\* of the maximum over all corners a/e, b/f, c/g, d/h whose denominator is
\* non-zero (upper is infinite if any corner has zero denominator and
\* non-zero numerator), and only corners of the form 0/0 are ignored; in
\* particular, when a = e = 0 the corners b/f, c/g and d/h all still
\* contribute.
C26_BracketOfCorners ==
  call.op = "bracket" =>
    /\ call.k.lower = LowerOf(v.gen)
    /\ call.k.upper = UpperOf(v.gen)

\* the numerator and the denominator of z at x = xn/xd and y, times xd
NumAt(s, xn, xd, yn, yd) ==
  s.a * xn * yn + s.b * xn * yd + s.c * xd * yn + s.d * xd * yd
DenAt(s, xn, xd, yn, yd) ==
  s.e * xn * yn + s.f * xn * yd + s.g * xd * yn + s.h * xd * yd

\* the points at which the transforms are compared
SamplePoints == -2..2

\* new z = 1/(old z - q) at every sample point: old z = q + 1/new z
EmitPreserves(old, new, q) ==
  \A x, y \in SamplePoints :
     /\ NumAt(new, x, 1, y, 1) = DenAt(old, x, 1, y, 1)
     /\ DenAt(new, x, 1, y, 1) = NumAt(old, x, 1, y, 1) - q * DenAt(old, x, 1, y, 1)

\* new z(x', y) = old z(q + 1/x', y) at every sample point, with q + 1/x'
\* written (q*x' + 1)/x'
IngestXPreserves(old, new, q) ==
  \A x, y \in SamplePoints :
     /\ NumAt(new, x, 1, y, 1) = NumAt(old, q * x + 1, x, y, 1)
     /\ DenAt(new, x, 1, y, 1) = DenAt(old, q * x + 1, x, y, 1)

\* new z(x, y') = old z(x, q + 1/y') at every sample point
IngestYPreserves(old, new, q) ==
  \A x, y \in SamplePoints :
     /\ NumAt(new, x, 1, y, 1) = NumAt(old, x, 1, q * y + 1, y)
     /\ DenAt(new, x, 1, y, 1) = DenAt(old, x, 1, q * y + 1, y)

\* C27: every coefficient update of the bihomographic engine preserves the
\* represented value: emitting q gives new coefficients with old z(x,y) =
\* q + 1/new z(x,y) and consumes no input; ingesting q from x gives new
\* z(x',y) = old z(q + 1/x', y); ingesting q from y gives new z(x,y') =
\* old z(x, q + 1/y'), for all integer coefficients and all q.
C27_UpdatesPreserveValue ==
  /\ call.op = "emit" =>
        /\ EmitPreserves(call.before, v.gen, call.q)
        /\ v.gen.nx = call.before.nx
        /\ v.gen.ny = call.before.ny
  /\ call.op = "ingest_x" => IngestXPreserves(call.before, v.gen, call.q)
  /\ call.op = "ingest_y" => IngestYPreserves(call.before, v.gen, call.q)

\* the three updates applied with q = 2 to coefficients that are all set
C27_Witness ==
  /\ call.op \in {"emit", "ingest_x", "ingest_y"}
  /\ call.q = 2
  /\ \A i \in 1..8 : co.k[i] # 0
  /\ v.gen # call.before

\* the iteration the binary engine is about to run ends by polling an operand
Polling ==
  /\ v.has_next
  /\ Running.mode = "bi"
  /\ Bracket(Running).lower # Bracket(Running).upper
  /\ ~(Unresolved(Bracket(Running)) /\ Running.iters_left = 0)

\* the quotient that iteration receives from the operand it polls
Polled ==
  IF IngestX(Bracket(Running)) THEN OperandPq(X, Running.nx)
  ELSE OperandPq(Y, Running.ny)

\* the unary engine the binary engine hands over to when its poll returns END
HandedOver ==
  IF IngestX(Bracket(Running))
    THEN Homographic(Running.ny, "y", Running.a, Running.b, Running.e, Running.f)
    ELSE Homographic(Running.nx, "x", Running.a, Running.c, Running.e, Running.g)

\* the operand a unary engine reads, and the one it does not
LiveOperand == IF v.gen.src = "x" THEN X ELSE Y

EndedOperand == IF v.gen.src = "x" THEN Y ELSE X

\* C28: an iteration of the binary engine that pulls END from x leaves the
\* unary engine (a*y+b)/(e*y+f) reading y from index ny, one that pulls END
\* from y leaves (a*x+c)/(e*x+g) reading x from index nx, and the binary
\* engine becomes a unary one in no other way; afterwards only the live operand
\* is read, at the indices not yet consumed from it.
C28_HandOver ==
  [][/\ (Polling /\ Polled = None) => v'.gen = HandedOver
     /\ (v.gen.mode \in {"binew", "bi"} /\ v'.gen.mode = "hom") =>
          /\ Polling
          /\ Polled = None
          /\ v'.gen = HandedOver
          /\ \A j \in 0..(v'.gen.nx - 1) :
               OperandPq(IF v'.gen.src = "x" THEN X ELSE Y, j) # None
     /\ (co.kind = "binop" /\ v.gen.mode = "hom" /\ v'.gen.mode = "hom") =>
          /\ v'.gen.src = v.gen.src
          /\ v'.gen.nx \in {v.gen.nx, v.gen.nx + 1}
          /\ v'.gen.nx = v.gen.nx + 1 => OperandPq(LiveOperand, v.gen.nx) # None
          /\ \E j \in 0..MaxIngest : OperandPq(EndedOperand, j) = None]_vars

\* x, of at least two quotients, has ended and the unary engine that took
\* over reads y from an index past the first two
C28_Witness ==
  /\ co.kind = "binop"
  /\ v.gen.mode = "hom"
  /\ v.gen.src = "y"
  /\ v.gen.nx >= 2
  /\ OperandPq(X, 1) # None
  /\ OperandPq(Y, v.gen.nx - 1) # None

\* the step of v outputs a quotient and reads nothing from the input
EmitsUnfed ==
  /\ Len(v'.cache) = Len(v.cache) + 1
  /\ v'.cache[Len(v'.cache)] # None
  /\ v'.gen.nx = v.gen.nx

\* both corners of the unary engine g are defined and their floors are equal
CornersAgree(g) ==
  /\ g.c # 0
  /\ g.d # 0
  /\ FloorDiv(g.a, g.c) = FloorDiv(g.b, g.d)

\* a corner of g is infinite: n/0 with n nonzero
CornerInfinite(g) == (g.c = 0 /\ g.a # 0) \/ (g.d = 0 /\ g.b # 0)

\* the floors of the corners of g that have a nonzero denominator
CornerFloors(g) ==
  (IF g.c # 0 THEN {FloorDiv(g.a, g.c)} ELSE {})
    \cup (IF g.d # 0 THEN {FloorDiv(g.b, g.d)} ELSE {})

\* no corner of g is infinite and the corners that are not 0/0 have one floor
CornersDetermine(g) ==
  /\ ~CornerInfinite(g)
  /\ Cardinality(CornerFloors(g)) = 1

\* the unary engine's input has ended: it freezes a/c, outputs nothing yet and
\* reads nothing more
Freezes ==
  /\ v'.gen.mode = "tail"
  /\ v'.gen.a = v.gen.a
  /\ v'.gen.c = v.gen.c
  /\ v'.cache = v.cache

\* one step of the Euclidean expansion of the frozen a/c: the quotient q with
\* a = q*c + r and r between 0 and c, then c/r; END when c = 0
ExpandsRatio ==
  /\ v'.gen.mode \in {"tail", "dead"}
  /\ Len(v'.cache) = Len(v.cache) + 1
  /\ IF v.gen.c = 0
       THEN /\ v'.cache[Len(v'.cache)] = None
            /\ ~v'.has_next
       ELSE /\ v'.cache[Len(v'.cache)] # None
            /\ v'.gen.mode = "tail"
            /\ v'.gen.nx = v.gen.nx
            /\ v'.gen.a = v.gen.c
            /\ v.gen.a = Val(v'.cache[Len(v'.cache)]) * v.gen.c + v'.gen.c
            /\ AbsOf(v'.gen.c) < AbsOf(v.gen.c)
            /\ v'.gen.c * v.gen.c >= 0

\* the input of the unary engine returns END at the index it is about to read
InputEnded == OperandPq(X, v.gen.nx) = None

\* C29: the unary engine outputs a quotient without reading its input exactly
\* when both corners floor(a/c) and floor(b/d) are defined and equal; when the
\* input returns END it reads nothing further and outputs the Euclidean
\* expansion of the frozen a/c, then END (END at once when c = 0).
C29_EmitsWhenCornersAgree ==
  [][/\ v.gen.mode = "hom" => (EmitsUnfed <=> CornersAgree(v.gen))
     /\ (v.gen.mode = "hom" /\ ~CornersAgree(v.gen) /\ InputEnded) => Freezes
     /\ v.gen.mode = "tail" => ExpandsRatio]_vars

\* C29 as the engine behaves: a quotient is output without reading the input
\* exactly when no corner is infinite and the corners other than 0/0 have the
\* same floor (so also when one corner is 0/0 and the other is defined); with
\* c = d = 0 END is output without reading; otherwise the input is read, and
\* on END the engine reads nothing further and outputs the Euclidean
\* expansion of the frozen a/c, then END (END at once when c = 0).
C29_EmitsWhenCornersDetermine ==
  [][/\ v.gen.mode = "hom" => (EmitsUnfed <=> CornersDetermine(v.gen))
     /\ (v.gen.mode = "hom" /\ v.gen.c = 0 /\ v.gen.d = 0) =>
          /\ v'.cache = Append(v.cache, None)
          /\ ~v'.has_next
     /\ (/\ v.gen.mode = "hom"
         /\ ~CornersDetermine(v.gen)
         /\ ~(v.gen.c = 0 /\ v.gen.d = 0)
         /\ InputEnded) => Freezes
     /\ v.gen.mode = "tail" => ExpandsRatio]_vars

\* the transform (0*x + b)/(0*x + d) has output floor(b/d) before reading x:
\* its corner a/c is 0/0
C29_Witness ==
  /\ co.kind = "unop"
  /\ co.k[1] = 0
  /\ co.k[3] = 0
  /\ co.k[4] # 0
  /\ v.gen.mode = "hom"
  /\ v.gen.nx = 0
  /\ v.cache = <<Some(FloorDiv(co.k[2], co.k[4]))>>

(***************************************************************************)
(* The consumers of pq inside the module: the two engines, digits,         *)
(* __cmp__ and __repr__, each run on its inputs X and Y with call          *)
(* recording the indices it has asked of them.                             *)
(***************************************************************************)
\* the indices asked of X and of Y so far
AskedX ==
  IF call.op = "asks" THEN call.x
  ELSE IF call.op = "cmp" THEN call.self_seen
  ELSE {}

AskedY ==
  IF call.op = "asks" THEN call.y
  ELSE IF call.op = "cmp" THEN call.other_seen
  ELSE {}

\* the record of the indices asked once x more of X and y more of Y are asked
Noted(x, y, i, done) ==
  [op |-> "asks", x |-> AskedX \cup x, y |-> AskedY \cup y, i |-> i, done |-> done]

\* the operand an engine iteration from g to g2 has polled: x_pq(nx) or
\* y_pq(ny) of the binary engine, x_pq(nx) of the unary one
PollsX(g, g2) ==
  IF g.mode = "bi"
    THEN (g2.mode = "bi" /\ g2.nx = g.nx + 1) \/ (g2.mode = "hom" /\ g2.src = "y")
    ELSE g.src = "x"

\* a loop iteration of an engine that polls an operand and yields nothing
EngineRead ==
  /\ co.kind \in {"binop", "unop"}
  /\ v.has_next
  /\ Ingested(v.gen) < MaxIngest
  /\ GenIter(v.gen, X, Y, max_iters).out = <<>>
  /\ v' = [v EXCEPT !.gen = GenIter(v.gen, X, Y, max_iters).gen]
  /\ call' = IF PollsX(Running, v'.gen)
               THEN Noted({Running.nx}, {}, 0, FALSE)
             ELSE IF Running.mode = "bi" THEN Noted({}, {Running.ny}, 0, FALSE)
             ELSE Noted({}, {Running.nx}, 0, FALSE)
  /\ UNCHANGED <<max_iters, X, Y, co>>

\* a loop iteration of an engine that yields
EngineYield ==
  /\ co.kind \in {"binop", "unop"}
  /\ v.has_next
  /\ GenIter(v.gen, X, Y, max_iters).out # <<>>
  /\ v' = Advance(v, GenIter(v.gen, X, Y, max_iters)).v
  /\ call' = Noted({}, {}, 0, FALSE)
  /\ UNCHANGED <<max_iters, X, Y, co>>

\* a loop iteration of digits that polls x_pq(nx)
DigitsAsk ==
  /\ co.kind = "digits"
  /\ v.has_next
  /\ v.gen.mode = "digits"
  /\ DigitsIter(v.gen, X).out = <<>>
  /\ DigitsIter(v.gen, X).gen # Stopped
  /\ v' = [v EXCEPT !.gen = DigitsIter(v.gen, X).gen]
  /\ call' = Noted({v.gen.nx}, {}, 0, FALSE)
  /\ UNCHANGED <<max_iters, X, Y, co>>

\* a loop iteration of digits that yields a digit
DigitsOut ==
  /\ co.kind = "digits"
  /\ v.has_next
  /\ v.gen.mode = "digits"
  /\ Len(v.cache) < MaxDigits
  /\ DigitsIter(v.gen, X).out # <<>>
  /\ v' = [v EXCEPT !.gen = DigitsIter(v.gen, X).gen,
                    !.cache = Append(v.cache, Val(DigitsIter(v.gen, X).out[1])),
                    !.adv = v.adv + 1]
  /\ call' = Noted({}, {}, 0, FALSE)
  /\ UNCHANGED <<max_iters, X, Y, co>>

\* digits returns
DigitsEnd ==
  /\ co.kind = "digits"
  /\ v.has_next
  /\ \/ v.gen = Stopped
     \/ /\ v.gen.mode = "digits"
        /\ DigitsIter(v.gen, X) = Quiet(Stopped)
  /\ v' = [v EXCEPT !.gen = Stopped, !.has_next = FALSE]
  /\ call' = Noted({}, {}, 0, TRUE)
  /\ UNCHANGED <<max_iters, X, Y, co>>

\* __cmp__ of two values, step by step
CmpAsk ==
  /\ co.kind = "cmp"
  /\ CmpEnter \/ CmpStep \/ CmpExit

\* the indices __cmp__ asks of self when other is the integer n
CmpIntAsks(self, n, mi) ==
  IF OperandPq(self, 0) = None THEN {0}
  ELSE IF IntCmp(Val(OperandPq(self, 0)), n) # 0 THEN {0}
  ELSE {0, 1}

\* __cmp__ of self and an integer
CmpIntAsk ==
  /\ co.kind = "cmp"
  /\ call = NoCall
  /\ \E n \in Ints :
        call' = [op |-> "asks", x |-> CmpIntAsks(X, n, max_iters), y |-> {},
                 i |-> 0, done |-> TRUE, r |-> cmp_int(X, n, max_iters)]
  /\ UNCHANGED <<max_iters, X, Y, co, v>>

\* the partial quotients __repr__ shows
repr_pqs == 17

\* __repr__ of x
InitRepr ==
  /\ max_iters = DefaultMaxIters
  /\ X \in Endless \cup Rationals \cup {NaN}
  /\ Y = Zero
  /\ co = [kind |-> "repr"]
  /\ v = NewValue(Dead)
  /\ call = NoCall

\* one iteration of the loop over xrange(repr_pqs); i is the next index and
\* done is set by the break
ReprStep ==
  /\ co.kind = "repr"
  /\ call = NoCall \/ (call.op = "asks" /\ ~call.done /\ call.i < repr_pqs)
  /\ call' = IF call = NoCall THEN Noted({0}, {}, 1, OperandPq(X, 0) = None)
             ELSE Noted({call.i}, {}, call.i + 1, OperandPq(X, call.i) = None)
  /\ UNCHANGED <<max_iters, X, Y, co, v>>

\* the statements after the loop: the shape of the string returned
ReprReturn ==
  /\ co.kind = "repr"
  /\ call.op = "asks"
  /\ call.done \/ call.i >= repr_pqs
  /\ "r" \notin DOMAIN call
  /\ call' = [op |-> "asks", x |-> call.x, y |-> call.y, i |-> call.i,
              done |-> TRUE,
              r |-> IF call.done /\ call.i = 1 THEN "cf(NaN)"
                    ELSE IF call.done /\ call.i = 2 THEN "cf(n)"
                    ELSE IF ~call.done THEN "cf(n;n,..)"
                    ELSE "cf(n;n)"]
  /\ UNCHANGED <<max_iters, X, Y, co, v>>

InitConsumers == InitBin \/ InitUn \/ InitDigits \/ InitCmpSteps \/ InitRepr

NextConsumers ==
  \/ EngineRead
  \/ EngineYield
  \/ DigitsAsk
  \/ DigitsOut
  \/ DigitsEnd
  \/ CmpAsk
  \/ CmpIntAsk
  \/ ReprStep
  \/ ReprReturn

SpecConsumers == InitConsumers /\ [][NextConsumers]_vars

\* the indices in S are 0, 1, 2, ... with none skipped
Consecutive(S) == \A n \in S : n = 0 \/ (n - 1) \in S

\* no index of S lies beyond an index of S at which the input returned END
NotPastEnd(input, S) ==
  \A k \in S : OperandPq(input, k) = None => \A n \in S : n <= k

\* C30: the indices a consumer (unary engine, binary engine, digits, __cmp__,
\* __repr__) has asked of an input are always 0, 1, 2, ... with none skipped,
\* and none of them lies beyond the index at which the input returned END.
C30_ConsecutiveNeverPastEnd ==
  /\ Consecutive(AskedX)
  /\ Consecutive(AskedY)
  /\ NotPastEnd(X, AskedX)
  /\ NotPastEnd(Y, AskedY)

\* the binary engine has asked x up to its END, then y up to its END, and
\* has finished
C30_Witness ==
  /\ co.kind = "binop"
  /\ ~v.has_next
  /\ \E k \in AskedX : k > 0 /\ OperandPq(X, k) = None
  /\ \E k \in AskedY : k > 0 /\ OperandPq(Y, k) = None

(***************************************************************************)
(* Both engines on finite operands, for every coefficient set over         *)
(* EngineCoefs and with and without an iteration ceiling.  The run starts  *)
(* with set_cf_parameter and the construction of the transform; then a     *)
(* consumer pulls its quotients.                                           *)
(***************************************************************************)
\* the finite operands of the runs: 0, -1/2 and 5/3
FiniteOperands == {Zero, Stream(<<-1, 2>>), Stream(<<1, 1, 2>>)}

\* "never stop" and the smallest ceiling
EitherCeiling == {-1, MinCeil}

\* the longest stream, END included, a transform of these runs may produce
MaxStream == 10

InitFinite ==
  /\ max_iters = DefaultMaxIters
  /\ X = Zero
  /\ Y = Zero
  /\ co = [kind |-> "none"]
  /\ v = NewValue(Dead)
  /\ call = NoCall

\* set_cf_parameter('max_iters', ...) and binop.__new__ or unop.__new__
Build ==
  /\ co.kind = "none"
  /\ max_iters' \in EitherCeiling
  /\ X' \in FiniteOperands
  /\ \/ /\ Y' \in FiniteOperands
        /\ \E a, b, c, d, e, f, g, h \in EngineCoefs :
              co' = [kind |-> "binop", op |-> "binop",
                     k |-> <<a, b, c, d, e, f, g, h>>]
        /\ v' = binop(co'.k)
     \/ /\ Y' = Zero
        /\ \E a, b, c, d \in -MaxCoef..MaxCoef :
              co' = [kind |-> "unop", op |-> "unop", k |-> <<a, b, c, d>>]
        /\ v' = unop(co'.k)
  /\ call' = NoCall

\* the quotients of the transform are pulled
Pull ==
  /\ co.kind # "none"
  /\ NextBin

NextFinite == Build \/ Pull

SpecFinite == InitFinite /\ [][NextFinite]_vars

\* a step of NextFinite is possible: nothing is built yet, or the value has a
\* generator whose next iteration is not held back
Active == co.kind = "none" \/ (v.has_next /\ Ingested(v.gen) < MaxIngest)

\* weak fairness of NextFinite, WF_vars(NextFinite), with the enabling
\* condition written out: the program runs on while it has a step to take
SpecFiniteFair == SpecFinite /\ ([]<>(~Active) \/ []<><<TRUE>>_vars)

\* the next iteration of the generator of v changes the generator or yields
Progresses ==
  \/ GenIter(v.gen, X, Y, max_iters).out # <<>>
  \/ /\ GenIter(v.gen, X, Y, max_iters).gen # v.gen
     /\ Ingested(v.gen) < MaxIngest

\* C31: on finite operands both engines end whatever the coefficients and the
\* ceiling: the stream reaches END; until then every iteration makes
\* progress, the operands are read no further than their ENDs, and no more
\* than MaxStream quotients are output.
C31_EnginesTerminate ==
  /\ <>Finished
  /\ []((co.kind # "none" /\ v.has_next) =>
          /\ Progresses
          /\ Ingested(v.gen) <= StreamLen(X) + StreamLen(Y) + 2
          /\ Len(v.cache) < MaxStream)

\* with no ceiling a transform of 5/3 and -1/2 has read both operands to
\* their ENDs and reached END after at least two quotients
C31_Witness ==
  /\ max_iters = -1
  /\ co.kind = "binop"
  /\ X = Stream(<<1, 1, 2>>)
  /\ Y = Stream(<<-1, 2>>)
  /\ Finished
  /\ v.gen = Dead
  /\ Len(v.cache) >= 3

\* max_iters/2
HalfCeiling == FloorDiv(max_iters, 2)

\* both streams have their first n quotients and these are pairwise equal
AgreeOnFirst(x, y, n) ==
  \A i \in 0..(n - 1) : OperandPq(x, i) # None /\ OperandPq(x, i) = OperandPq(y, i)

\* C32: cmp(x, y) returns the exact zero (the int 0) exactly when the two
\* streams agree on every quotient and end at the same index k < max_iters/2,
\* and the heuristic zero (the long 0L) exactly when the first max_iters/2
\* quotients of both exist and are pairwise equal.
C32_ZeroKinds ==
  Compared =>
    /\ call.r = Result("int", 0) <=> (X = Y /\ StreamLen(X) < HalfCeiling)
    /\ call.r = Result("long", 0) <=> AgreeOnFirst(X, Y, HalfCeiling)

\* the results r of cmp(x, y) and s of cmp(y, x) mirror each other: both raise,
\* or neither does and their signs are opposite
Mirrored(r, s) ==
  /\ r.kind = "raise" <=> s.kind = "raise"
  /\ r.kind # "raise" => Sign(r.val) = -Sign(s.val)

\* C33: cmp(x, y) and cmp(y, x) have opposite signs (zero together) and raise
\* 'NaN detected' together, for all pairs of values, NaN included; and NaN
\* does not compare equal to the integer 0.
C33_CmpSymmetric ==
  /\ Compared => Mirrored(call.r, cmp(Y, X, max_iters))
  /\ (ComparedInt /\ X = NaN /\ call.n = 0) =>
        ~(call.r.kind \in {"int", "long"} /\ call.r.val = 0)

(***************************************************************************)
(* pq(n) asked of a generator-backed value at any index, in any order.     *)
(***************************************************************************)
InitAccess ==
  /\ InitPq
  /\ co.kind # "pi"

\* v.pq(n) for any index n
PqAt ==
  /\ \E n \in 0..MaxIndex :
        /\ v' = pq(v, n, X, Y, max_iters).v
        /\ call' = [op |-> "pq", n |-> n, ret |-> pq(v, n, X, Y, max_iters).ret,
                    err |-> pq(v, n, X, Y, max_iters).err]
  /\ UNCHANGED <<max_iters, X, Y, co>>

SpecAccess == InitAccess /\ [][PqAt]_vars

\* the generator the value under test was built with
Source == IF co.kind = "ratio" THEN ratio(co.p, co.q) ELSE GenOf(co)

\* all the quotients that generator yields before END
Whole == Drain(GenNext(Source, X, Y, max_iters), X, Y, max_iters)

\* the quotient at index n of the value, END from the end of the stream on
QuotientAt(n) == IF n < Len(Whole) THEN Some(Whole[n + 1]) ELSE None

\* C34: pq(n) returns the quotient at index n of the value whatever was
\* requested before, also when an index below n was never requested.
C34_RandomAccess ==
  call.op = "pq" => (~call.err /\ call.ret = QuotientAt(call.n))

\* C34 as pq behaves: a request at an index already produced, or at the next
\* index while the producer is alive, returns the quotient at that index;
\* a request that skips indices returns the next quotient not yet produced.
C34_SequentialAccess ==
  [][/\ (\/ call'.n < Len(v.cache)
         \/ (call'.n = Len(v.cache) /\ v.has_next)) =>
          (~call'.err /\ call'.ret = QuotientAt(call'.n))
     /\ (call'.n > Len(v.cache) /\ v.has_next) =>
          (~call'.err /\ call'.ret = QuotientAt(Len(v.cache)))]_vars

\* pq(2) was the first request made of a value with three or more quotients
\* and returned the quotient at index 0, which differs from the one at 2
C34_Witness ==
  /\ call.op = "pq"
  /\ call.n = 2
  /\ Len(Whole) >= 3
  /\ Len(v.cache) = 1
  /\ call.ret = QuotientAt(0)
  /\ QuotientAt(2) # QuotientAt(0)

(***************************************************************************)
(* __repr__ of values with about repr_pqs partial quotients.               *)
(***************************************************************************)
\* cf((1, ..., 1, 2)) with n partial quotients
OnesThenTwo(n) == Stream([i \in 1..n |-> IF i = n THEN 2 ELSE 1])

InitReprLong ==
  /\ max_iters = DefaultMaxIters
  /\ X \in Endless \cup Rationals \cup {NaN}
             \cup {OnesThenTwo(n) : n \in (repr_pqs - 2)..(repr_pqs + 2)}
  /\ Y = Zero
  /\ co = [kind |-> "repr"]
  /\ v = NewValue(Dead)
  /\ call = NoCall

NextRepr == ReprStep \/ ReprReturn

SpecRepr == InitReprLong /\ [][NextRepr]_vars

\* __repr__ has returned
Shown == call.op = "asks" /\ "r" \in DOMAIN call

\* C35: repr asks only for the indices 0 .. repr_pqs-1, and its output ends
\* with ',..' exactly when the value has more than repr_pqs partial quotients
\* (a quotient at index repr_pqs); with exactly repr_pqs there is no marker.
C35_ReprMarker ==
  /\ AskedX \subseteq 0..(repr_pqs - 1)
  /\ Shown => (call.r = "cf(n;n,..)" <=> OperandPq(X, repr_pqs) # None)

(***************************************************************************)
(* _cf_isqrt loop by loop and the state machine of sqrt.pq.  In call the   *)
(* record of a running _cf_isqrt(x) holds r1, r2, at ("loop", "returned",  *)
(* "raised", "zerodiv") and of: the argument of the sqrt(...) that called  *)
(* it, PyNone for a call of _cf_isqrt alone.  In co the sqrt object holds  *)
(* plain and converse (finite streams, read in increasing order as sqrt.pq *)
(* does), x, cache, the index n that a running pq(n) is looking for (-1    *)
(* when none runs), the count of refinements and err: the loop that reads  *)
(* the quotients 0..n-1 of a new pair has gone past the END of one.        *)
(***************************************************************************)
\* the largest argument of _cf_isqrt called alone
MaxIsqrt == 150

\* a pair is refined while the numerator of plain is at most MaxPlain
MaxPlain == 100

\* the values whose root is taken: positive rationals
RootValues ==
  { Stream(RatioQuotients(ratio(p, q))) : p \in 1..MaxRadicand, q \in 2..MaxDen }

\* the arguments x of sqrt(x) that reach _cf_isqrt
Radicands ==
  {PyInt(n) : n \in (-1..MaxRadicand) \ {0}} \cup {Cf(s) : s \in RootValues}

\* x.pq(0) == 0 and x.pq(1) > 1 in sqrt.__new__
IsSmall(x) ==
  /\ OperandPq(x.s, 0) = Some(0)
  /\ OperandPq(x.s, 1) # None
  /\ Val(OperandPq(x.s, 1)) > 1

\* the argument sqrt.__new__(x) hands to _cf_isqrt
IsqrtArg(x) ==
  IF x.t = "int" THEN x.n
  ELSE IF IsSmall(x) THEN Val(OperandPq(x.s, 1))
  ELSE Val(OperandPq(x.s, 0))

\* the exit test of the loop of _cf_isqrt, taken two apart
IsqrtDone_Wide(r1, r2) == -2 <= r1 - r2 /\ r1 - r2 <= 2

\* the exit test of the loop of _cf_isqrt
IsqrtDone(r1, r2) == -1 <= r1 - r2 /\ r1 - r2 <= 1

InitRoot ==
  /\ max_iters = DefaultMaxIters
  /\ X = Zero
  /\ Y = Zero
  /\ co = [kind |-> "none"]
  /\ v = NewValue(Dead)
  /\ call = NoCall

\* _cf_isqrt(x) is entered with the argument x on behalf of `of`
IsqrtEntered(x, of) ==
  [op |-> "isqrt", x |-> x, r1 |-> 1, r2 |-> x, of |-> of,
   at |-> IF x < 0 THEN "raised" ELSE "loop"]

\* _cf_isqrt(x) called alone, or from sqrt(x) for an integer or a value x
IsqrtCall ==
  /\ call = NoCall
  /\ co.kind = "none"
  /\ \/ \E x \in -1..MaxIsqrt : call' = IsqrtEntered(x, PyNone)
     \/ \E x \in Radicands : call' = IsqrtEntered(IsqrtArg(x), x)
  /\ UNCHANGED <<max_iters, X, Y, co, v>>

\* the body of the loop of _cf_isqrt with the new r1
IsqrtBody(c, r1) ==
  IF r1 = 0 THEN [c EXCEPT !.r1 = 0, !.at = "zerodiv"]
  ELSE [c EXCEPT !.r1 = r1, !.r2 = FloorDiv(c.x, r1)]

\* one iteration of the loop of _cf_isqrt
IsqrtStep ==
  /\ call.op = "isqrt"
  /\ call.at = "loop"
  /\ ~IsqrtDone(call.r1, call.r2)
  /\ call' = IsqrtBody(call, FloorDiv(call.r1 + call.r2, 2))
  /\ UNCHANGED <<max_iters, X, Y, co, v>>

\* return r1
IsqrtReturn ==
  /\ call.op = "isqrt"
  /\ call.at = "loop"
  /\ IsqrtDone(call.r1, call.r2)
  /\ call' = [call EXCEPT !.at = "returned"]
  /\ UNCHANGED <<max_iters, X, Y, co, v>>

\* plain and converse of sqrt.__new__(x) with integer_root = root
RootPair(x, root) ==
  IF x.t = "int" THEN SqrtOfInt(x, root)
  ELSE IF IsSmall(x) THEN SqrtOfSmall(x, root)
  ELSE SqrtOfLarge(x, root)

\* the sqrt object with its fields plain, converse, x and cache
RootObject(o, mi) ==
  [kind |-> "root", plain |-> AsOperand(o.plain, mi).s,
   converse |-> AsOperand(o.converse, mi).s, x |-> o.x,
   cache |-> <<>>, n |-> -1, refined |-> 0, err |-> FALSE]

\* sqrt.__new__ after _cf_isqrt has returned
SqrtBuilt ==
  /\ call.op = "isqrt"
  /\ call.at = "returned"
  /\ call.of # PyNone
  /\ co.kind = "none"
  /\ co' = RootObject(RootPair(call.of, PyInt(call.r1)), max_iters)
  /\ UNCHANGED <<max_iters, X, Y, v, call>>

\* the cache of the sqrt object holds the END
RootEnded == co.cache # <<>> /\ co.cache[Len(co.cache)] = None

\* sqrt.pq(n) up to its loop: a cached quotient is returned at once
SqrtPqCall ==
  /\ co.kind = "root"
  /\ co.n = -1
  /\ ~co.err
  /\ \E n \in 0..Len(co.cache) :
        /\ n = Len(co.cache) => ~RootEnded
        /\ IF n < Len(co.cache)
             THEN /\ call' = [op |-> "sqrt.pq", n |-> n, ret |-> co.cache[n + 1]]
                  /\ co' = co
             ELSE /\ call' = [op |-> "sqrt.pq", n |-> n]
                  /\ co' = [co EXCEPT !.n = n]
  /\ UNCHANGED <<max_iters, X, Y, v>>

\* plain_pq(i) or converse_pq(i) for i in xrange(n) raises: s has ended
\* before the index n - 1
PastEnd(s, n) == StreamLen(s) + 1 < n

\* the refinement that leaves converse as it was
Refined_StaleConverse(o, plain, mi) ==
  [o EXCEPT !.plain = plain, !.refined = o.refined + 1,
            !.err = PastEnd(plain, o.n) \/ PastEnd(o.converse, o.n)]

\* the refinement of sqrt.pq: plain is the new self.plain
Refined(o, plain, mi) ==
  [o EXCEPT !.plain = plain,
            !.converse = AsOperand(BinaryOp("div", o.x, Cf(plain)), mi).s,
            !.refined = o.refined + 1,
            !.err = \/ PastEnd(plain, o.n)
                    \/ PastEnd(AsOperand(BinaryOp("div", o.x, Cf(plain)), mi).s, o.n)]

\* binop(self.plain, self.converse, 0, 1, 1, 0, 0, 0, 0, 2)
Mean(o, mi) == Expand(Bin(o.plain, o.converse, <<0, 1, 1, 0, 0, 0, 0, 2>>), mi)

\* one iteration of the loop of sqrt.pq
SqrtPqIter ==
  /\ co.kind = "root"
  /\ co.n >= 0
  /\ ~co.err
  /\ IF OperandPq(co.plain, co.n) = OperandPq(co.converse, co.n)
       THEN /\ co' = [co EXCEPT !.cache = Append(@, OperandPq(co.plain, co.n)),
                                !.n = -1]
            /\ call' = [op |-> "sqrt.pq", n |-> co.n,
                        ret |-> OperandPq(co.plain, co.n)]
       ELSE /\ CFNum(co.plain.x) <= MaxPlain
            /\ co' = Refined(co, Mean(co, max_iters), max_iters)
            /\ call' = call
  /\ UNCHANGED <<max_iters, X, Y, v>>

NextRoot == IsqrtCall \/ IsqrtStep \/ IsqrtReturn \/ SqrtBuilt \/ SqrtPqCall \/ SqrtPqIter

SpecRoot == InitRoot /\ [][NextRoot]_vars

\* a call of _cf_isqrt that has entered its loop is scheduled until it returns
SpecRootFair == SpecRoot /\ WF_vars(IsqrtStep) /\ WF_vars(IsqrtReturn)

\* floor(sqrt(x)) for x >= 0
FloorSqrt(x) == CHOOSE s \in 0..x : s * s <= x /\ x < (s + 1) * (s + 1)

IsPrefix(s, t) == Len(s) <= Len(t) /\ \A i \in 1..Len(s) : s[i] = t[i]

InIsqrt == call.op = "isqrt" /\ call.x >= 0

IsqrtReturned == call.op = "isqrt" /\ call.at = "returned"

\* the loop of _cf_isqrt never divides by zero and its result r = r1 is
\* at least 1, within 1 of floor(x/r), floor(sqrt(x)) or one more, and k for
\* x = k*k with k >= 1
IsqrtSound ==
  InIsqrt =>
    /\ call.at # "zerodiv"
    /\ call.r1 >= 1
    /\ call.at = "returned" =>
         /\ -1 <= call.r1 - FloorDiv(call.x, call.r1)
         /\ call.r1 - FloorDiv(call.x, call.r1) <= 1
         /\ call.r1 \in {FloorSqrt(call.x), FloorSqrt(call.x) + 1}
         /\ (FloorSqrt(call.x) >= 1 /\ FloorSqrt(call.x) * FloorSqrt(call.x) = call.x)
              => call.r1 = FloorSqrt(call.x)

\* the sqrt object of the integer k*k
RootOfSquare ==
  /\ co.kind = "root"
  /\ co.x.t = "int"
  /\ FloorSqrt(co.x.n) * FloorSqrt(co.x.n) = co.x.n

\* sqrt(k*k) is the stream k, END, reached with no refinement
SquareIsExact ==
  RootOfSquare =>
    /\ co.refined = 0
    /\ co.plain = Stream(<<FloorSqrt(co.x.n)>>)
    /\ co.converse = Stream(<<FloorSqrt(co.x.n)>>)
    /\ IsPrefix(co.cache, <<Some(FloorSqrt(co.x.n)), None>>)

Reduced(n, d) == <<n \div gcd(n, d), d \div gcd(n, d)>>

\* the numerator and the denominator of the argument x of sqrt(x)
XNum(x) == IF x.t = "int" THEN x.n ELSE CFNum(x.s.x)
XDen(x) == IF x.t = "int" THEN 1 ELSE CFDen(x.s.x)

\* plain * converse = x: converse is x/plain in lowest terms
ProductIsX ==
  co.kind = "root" =>
    <<CFNum(co.converse.x), CFDen(co.converse.x)>>
      = Reduced(XNum(co.x) * CFDen(co.plain.x), XDen(co.x) * CFNum(co.plain.x))

\* plain and converse both hold every cached quotient at its index, and the
\* loop that reads the quotients 0..n-1 of a new pair stays within both
CacheAgrees ==
  co.kind = "root" =>
    /\ ~co.err
    /\ \A i \in 1..Len(co.cache) :
         /\ co.cache[i] = OperandPq(co.plain, i - 1)
         /\ co.cache[i] = OperandPq(co.converse, i - 1)

\* the cache grows by the quotient at the index asked for, on which the
\* unchanged plain and converse agree
AppendsOnAgreement ==
  (co.kind = "root" /\ co'.cache # co.cache) =>
    /\ co.n = Len(co.cache)
    /\ co'.plain = co.plain /\ co'.converse = co.converse
    /\ OperandPq(co.plain, co.n) = OperandPq(co.converse, co.n)
    /\ co'.cache = Append(co.cache, OperandPq(co.plain, co.n))

\* the first quotients of sqrt(2)
Sqrt2Begins ==
  (co.kind = "root" /\ co.x = PyInt(2)) =>
    \A i \in 1..Len(co.cache) :
       i <= 4 => co.cache[i] = Some(<<1, 2, 2, 2>>[i])

MaxInverse == 8
MaxClosureIndex == 20

InitClosure ==
  /\ max_iters = DefaultMaxIters
  /\ X \in {exp_1n(n) : n \in 1..MaxInverse}
  /\ Y = Zero
  /\ co = [kind |-> "exp_1n"]
  /\ v = NewValue(Dead)
  /\ call = NoCall

\* X.pq(index) of the value X = _cf_exp_1n(inverse_exponent)
ClosurePq ==
  /\ \E index \in 0..MaxClosureIndex :
        call' = [op |-> "closure", n |-> index, ret |-> OperandPq(X, index)]
  /\ UNCHANGED <<max_iters, X, Y, co, v>>

NextClosure == ClosurePq

SpecClosure == InitClosure /\ [][NextClosure]_vars

\* the quotients of e^(1/n) for n >= 2 and of e as the documentation lists them
ListedRoot(n) == <<1, n - 1, 1, 1, 3 * n - 1, 1, 1, 5 * n - 1>>
ListedE == <<2, 1, 2, 1, 1, 4, 1, 1, 6>>

\* C38: the closure of e^(1/n), n >= 2, returns 1 at index 0,
\* (2*(i div 3)+1)*n - 1 at the indices i with i mod 3 = 1 and 1 elsewhere,
\* (1, n-1, 1, 1, 3n-1, 1, 1, 5n-1, ...); for n = 1 it returns 2, 1, 2, 1, 1,
\* 4, 1, 1, 6, ...; every quotient past index 0 is at least 1 and no request
\* returns END.
C38_ClosedForm ==
  call.op = "closure" =>
    /\ call.ret # None
    /\ call.n >= 1 => Val(call.ret) >= 1
    /\ X.inverse_exponent >= 2 =>
         /\ call.n = 0 => call.ret = Some(1)
         /\ call.n % 3 = 1 =>
              call.ret = Some((2 * (call.n \div 3) + 1) * X.inverse_exponent - 1)
         /\ call.n % 3 # 1 => call.ret = Some(1)
         /\ call.n < 8 => call.ret = Some(ListedRoot(X.inverse_exponent)[call.n + 1])
    /\ X.inverse_exponent = 1 =>
         /\ call.n < 9 => call.ret = Some(ListedE[call.n + 1])
         /\ call.n % 3 = 2 => call.ret = Some(2 * (call.n \div 3) + 2)
         /\ (call.n % 3 # 2 /\ call.n > 0) => call.ret = Some(1)

\* C38 witness: e^(1/3) asked for index 7 gives 5*3 - 1 = 14.
C38_Witness ==
  /\ call.op = "closure"
  /\ X = exp_1n(3)
  /\ call.n = 7
  /\ call.ret = Some(14)

(***************************************************************************)
(* _cf_pi_generator beside its reduced twin.  v.gen runs the loop as the   *)
(* model reaches it, before the first q with q & 2047 = 1; co.twin runs    *)
(* the same loop and may make the reduction of a, b, c, d by their gcd at  *)
(* the end of any iteration that takes in a term; co.cache holds what the  *)
(* twin has emitted.                                                       *)
(***************************************************************************)
InitTwin ==
  /\ max_iters = DefaultMaxIters
  /\ X = Zero
  /\ Y = Zero
  /\ co = [kind |-> "twin", twin |-> PiGenerator, cache |-> <<>>]
  /\ v = NewValue(PiGenerator)
  /\ call = NoCall

\* the loop iteration r of the twin, with the reduction if reduce says so
TwinIter(r, reduce) ==
  IF reduce /\ r.out = <<>> THEN Quiet(PiReduced(r.gen)) ELSE r

\* the cache after the iteration r
Emitted(cache, r) == IF r.out = <<>> THEN cache ELSE Append(cache, r.out[1])

\* the generator g has not taken in MaxPiTerms terms
TermsLeft(g) == IF g.mode = "pinew" THEN TRUE ELSE g.q < 9 + 2 * MaxPiTerms

\* one loop iteration of the generator and of its twin
PiTwinStep ==
  /\ co.kind = "twin"
  /\ Len(v.cache) < MaxPiQuotients
  /\ Len(co.cache) < MaxPiQuotients
  /\ TermsLeft(v.gen)
  /\ TermsLeft(co.twin)
  /\ \E reduce \in BOOLEAN :
        /\ co' = [co EXCEPT !.twin = TwinIter(LongPiIter(co.twin), reduce).gen,
                            !.cache = Emitted(co.cache, LongPiIter(co.twin))]
        /\ call' = [op |-> "iter", out |-> LongPiIter(v.gen).out,
                    twin_out |-> LongPiIter(co.twin).out,
                    reduced |-> TwinIter(LongPiIter(co.twin), reduce).gen
                                  # LongPiIter(co.twin).gen]
  /\ v' = [v EXCEPT !.gen = LongPiIter(v.gen).gen,
                    !.cache = Emitted(v.cache, LongPiIter(v.gen)),
                    !.adv = v.adv + Len(LongPiIter(v.gen).out)]
  /\ UNCHANGED <<max_iters, X, Y>>

NextTwin == PiTwinStep

SpecTwin == InitTwin /\ [][NextTwin]_vars

\* c and d of a generator inside its loop are positive
PositiveDivisors(g) == g.mode = "pi" => (g.c # <<>> /\ g.d # <<>>)

\* the twin has emitted what the generator has emitted
SameQuotients == co.kind = "twin" => co.cache = v.cache

\* an iteration reads nothing but the state of the generator
PullsNothing ==
  /\ UNCHANGED <<X, Y>>
  /\ v'.gen = LongPiIter(v.gen).gen

\* C39: at every iteration of the loop of the pi generator c and d are
\* positive, so neither division divides by zero; the generator pulls from no
\* other value; and the division of a, b, c, d by their common gcd changes no
\* quotient emitted afterwards.
C39_PiLoop ==
  /\ [](PositiveDivisors(v.gen) /\ PositiveDivisors(co.twin) /\ SameQuotients)
  /\ [][PullsNothing]_vars

\* C39 witness: the twin, made smaller by a reduction, has emitted the same
\* five quotients 3, 7, 15, 1, 292 as the generator.
C39_Witness ==
  /\ co.kind = "twin"
  /\ Len(co.cache) >= 5
  /\ co.twin.a # v.gen.a
  /\ co.cache = v.cache
  /\ v.cache[5] = Some(292)

====
